---- MODULE Spec2Model ----
(***************************************************************************)
(* Model of the two OpenWebUI pipes of this repository:                    *)
(*   functions/exa_openrouter_direct.py  (the "direct" pipe: the           *)
(*       orchestration loop _call_openrouter_with_tools and Pipe.pipe)     *)
(*   functions/exa_crewai_answer.py      (the "crewai" pipe: Pipe.pipe     *)
(*       around an opaque crew.kickoff())                                  *)
(*   functions/open_webui/utils/misc.py  (pop_system_message)              *)
(*                                                                         *)
(* Representation.  A Python str is a sequence of tokens; a token is a     *)
(* single character or a fixed literal of the source.  A value of type     *)
(* "str | None" is a record [none, s].  A dict is a record whose DOMAIN    *)
(* is the set of keys present.                                             *)
(***************************************************************************)
EXTENDS Integers, Sequences, FiniteSets, TLC

\* ------------------------------------------------------------------ bounds
\* Largest number of tool-call requests in one model response.
MaxCalls == 2
\* Largest number of tool invocations the opaque crew makes in one kickoff.
MaxCrewTools == 2
\* Longest message list handed to pop_system_message on its own.
MaxPopLen == 4
\* Longest citation list handed to _format_citations_as_sources on its own.
MaxFormatLen == 2

\* ------------------------------------------------------- python values
None == [none |-> TRUE, s |-> <<>>]
Str(s) == [none |-> FALSE, s |-> s]

Whitespace == {" ", "\n", "\t"}

\* str.strip() == "" : every character is whitespace
IsBlank(s) == \A i \in DOMAIN s : s[i] \in Whitespace

\* Python truthiness of a "str | None" value
Truthy(v) == ~v.none /\ v.s # <<>>

\* "not result_text or not result_text.strip()"
EmptyOrBlank(v) == ~Truthy(v) \/ IsBlank(v.s)

\* str(x) inside an f-string
Fmt(v) == IF v.none THEN <<"None">> ELSE v.s

\* number of occurrences of e in a list
Count(seq, e) == Cardinality({i \in DOMAIN seq : seq[i] = e})

RECURSIVE Flatten(_)
Flatten(ss) == IF ss = <<>> THEN <<>> ELSE Head(ss) \o Flatten(Tail(ss))

\* ------------------------------------------------------------ literals
ROLE_SYSTEM == "system"
ROLE_USER == "user"
ROLE_ASSISTANT == "assistant"
ROLE_TOOL == "tool"

EXA_ANSWER == "exa_answer_search"
EXA_CONTEXT == "exa_context_search"

ERROR_PREFIX == "Error: "
MSG_NO_EXA_KEY == <<"EXA_API_KEY not provided in the valves.">>
MSG_NO_OPENROUTER_KEY == <<"OPENROUTER_API_KEY not provided in the valves.">>
TOOL_NO_EXA_KEY == <<ERROR_PREFIX, "EXA_API_KEY not configured">>
UNKNOWN_TOOL == "Unknown tool: "
ERROR_SEARCHING == "Error searching: "
APOLOGY == <<"I apologize, but I couldn't generate a response. Please try rephrasing your question.">>
TOOLS_GUIDANCE == <<"You have access to two search tools: ... You can call tools multiple times if needed.">>
NONE_HAS_NO_LEN == <<"object of type 'NoneType' has no len()">>

\* f"... I found {len(all_citations)} relevant sources ..." of the loop
LoopSummary(n) ==
    << "Based on the search results I found, here's what I can tell you about your query. I found ",
       ToString(n),
       " relevant sources that should help answer your question." >>

\* f"Based on my search, I found {len(citations)} relevant sources ..." of pipe
PipeSummary(n) ==
    << "Based on my search, I found ", ToString(n),
       " relevant sources that should help answer your question." >>

\* f"Error: {...}"
ErrorText(msg) == <<ERROR_PREFIX>> \o msg

\* f"OpenRouter API error: {status} - {text}"
OpenRouterErrorMsg(r) == <<"OpenRouter API error: ", r.status, " - ", r.text>>

\* f"Exa API error: {status} - {text}"
ExaErrorMsg(r) == <<"Exa API error: ", r.status, " - ", r.text>>

CrewApology(msg) ==
    <<"I apologize, but I encountered an error while processing your request: ">>
    \o msg \o <<". Please try again or rephrase your question.">>

\* ------------------------------------------------------ dict helpers
\* dict.get(key, default)
Get(d, k, default) == IF k \in DOMAIN d THEN d[k] ELSE default

Min(a, b) == IF a < b THEN a ELSE b

\* s[-1:] of a list
LastSlice(s) == IF s = <<>> THEN <<>> ELSE <<s[Len(s)]>>

\* s[:-1] of a list
ButLast(s) == IF s = <<>> THEN <<>> ELSE SubSeq(s, 1, Len(s) - 1)

\* ------------------------------------------- pop_system_message (two)
\* The result is [system, rest, same]: system is a list of zero or one message
\* (None or the message); same tells that rest is the very list object that
\* was passed in, not a new list.
RECURSIVE NonSystem(_)
NonSystem(ms) ==
    IF ms = <<>> THEN <<>>
    ELSE IF Head(ms).role = ROLE_SYSTEM THEN NonSystem(Tail(ms))
         ELSE <<Head(ms)>> \o NonSystem(Tail(ms))

RECURSIVE FirstSystem(_)
FirstSystem(ms) ==
    IF ms = <<>> THEN <<>>
    ELSE IF Head(ms).role = ROLE_SYSTEM THEN <<Head(ms)>>
         ELSE FirstSystem(Tail(ms))

\* mutant: a later system message replaces the one found before
pop_system_message_mock_keeps_last(ms) ==
    IF ms = <<>> THEN [system |-> <<>>, rest |-> ms, same |-> TRUE]
    ELSE LET sys == {i \in DOMAIN ms : ms[i].role = ROLE_SYSTEM}
         IN  [system |-> IF sys = {} THEN <<>>
                         ELSE <<ms[CHOOSE i \in sys : \A j \in sys : j <= i]>>,
              rest |-> NonSystem(ms), same |-> FALSE]

\* open_webui/utils/misc.py
pop_system_message_mock(ms) ==
    IF ms = <<>> THEN [system |-> <<>>, rest |-> ms, same |-> TRUE]
    ELSE [system |-> FirstSystem(ms), rest |-> NonSystem(ms), same |-> FALSE]

\* mutant: a leading system message is returned but not taken off the list
pop_system_message_fallback_keeps_system(ms) ==
    IF ms # <<>> /\ ms[1].role = ROLE_SYSTEM
    THEN [system |-> <<ms[1]>>, rest |-> ms, same |-> TRUE]
    ELSE [system |-> <<>>, rest |-> ms, same |-> TRUE]

\* the ImportError fallback of the pipe modules
pop_system_message_fallback(ms) ==
    IF ms # <<>> /\ ms[1].role = ROLE_SYSTEM
    THEN [system |-> <<ms[1]>>, rest |-> Tail(ms), same |-> FALSE]
    ELSE [system |-> <<>>, rest |-> ms, same |-> TRUE]

\* which of the two the module-level try/except binds depends on the
\* process's import path
PopImpls == {"mock", "fallback"}

pop_system_message(impl, ms) ==
    IF impl = "mock" THEN pop_system_message_mock(ms)
    ELSE pop_system_message_fallback(ms)

\* --------------------------------------- _build_conversation_context
RECURSIVE ContextBlocks(_)
ContextBlocks(ms) ==
    IF ms = <<>> THEN <<>>
    ELSE (IF Head(ms).role = ROLE_USER
            THEN <<"User: ">> \o Fmt(Head(ms).content) \o <<"\n\n">>
          ELSE IF Head(ms).role = ROLE_ASSISTANT
            THEN <<"Assistant: ">> \o Fmt(Head(ms).content) \o <<"\n\n">>
          ELSE <<>>)
         \o ContextBlocks(Tail(ms))

\* mutant: a message of any other role is summarized as a user message
build_conversation_context_other_as_user(ms) ==
    <<"Previous conversation:\n\n">>
    \o ContextBlocks([i \in DOMAIN ms |->
                       IF ms[i].role \in {ROLE_USER, ROLE_ASSISTANT} THEN ms[i]
                       ELSE [ms[i] EXCEPT !.role = ROLE_USER]])

build_conversation_context(ms) ==
    <<"Previous conversation:\n\n">> \o ContextBlocks(ms)

\* ------------------------------------- _format_citations_as_sources
PREVIEW_LEN == 500
PREVIEW_FALLBACK == <<"Click the link to view the content.">>

\* mutant: the placeholder carries enumerate's 0-based i
SourceTitleDefault_zero_based(i) == <<"Source ", ToString(i - 1)>>

SourceTitleDefault(i) == <<"Source ", ToString(i)>>

\* mutant: the optional keys are always written
Metadata_always_keys(url, author, published_date) ==
    [source |-> url, author |-> author, publishedDate |-> published_date]

Metadata(url, author, published_date) ==
    [k \in {"source"}
          \cup (IF author # <<>> THEN {"author"} ELSE {})
          \cup (IF published_date # <<>> THEN {"publishedDate"} ELSE {})
       |-> CASE k = "source" -> url
             [] k = "author" -> author
             [] k = "publishedDate" -> published_date]

\* mutant: the display name carries enumerate's 0-based i
FormatOne_zero_based(citation, i) ==
    LET url == Get(citation, "url", <<>>)
        title == Get(citation, "title", SourceTitleDefault(i))
        text_content == Get(citation, "text", <<>>)
    IN [source |-> [name |-> <<"[", ToString(i - 1), "] ">> \o title,
                    type |-> "web_search_results",
                    urls |-> <<url>>],
        document |-> << IF text_content # <<>>
                          THEN SubSeq(text_content, 1, Min(Len(text_content), PREVIEW_LEN))
                          ELSE PREVIEW_FALLBACK >>,
        metadata |-> << Metadata(url, Get(citation, "author", <<>>),
                                 Get(citation, "publishedDate", <<>>)) >>]

\* the loop body for the citation at 1-based position i (enumerate's i + 1)
FormatOne(citation, i) ==
    LET url == Get(citation, "url", <<>>)
        title == Get(citation, "title", SourceTitleDefault(i))
        author == Get(citation, "author", <<>>)
        published_date == Get(citation, "publishedDate", <<>>)
        text_content == Get(citation, "text", <<>>)
    IN [source |-> [name |-> <<"[", ToString(i), "] ">> \o title,
                    type |-> "web_search_results",
                    urls |-> <<url>>],
        document |-> << IF text_content # <<>>
                          THEN SubSeq(text_content, 1, Min(Len(text_content), PREVIEW_LEN))
                          ELSE PREVIEW_FALLBACK >>,
        metadata |-> << Metadata(url, author, published_date) >>]

format_citations_as_sources(cits) ==
    [i \in 1..Len(cits) |-> FormatOne(cits[i], i)]

\* ------------------------------------------------------------ inputs
CIT_X == [url |-> <<"https://x">>, title |-> <<"X">>]
CIT_Y == [url |-> <<"https://y">>, author |-> <<"A">>, text |-> <<"t", "e", "x", "t">>]

\* what data.get("citations", []) of an Exa answer can hold
CitationLists == { <<>>, <<CIT_X>>, <<CIT_Y, CIT_X>> }

SysMsg == [role |-> ROLE_SYSTEM, content |-> Str(<<"be brief">>)]
UserMsg(c) == [role |-> ROLE_USER, content |-> Str(<<c>>)]
AsstMsg(c) == [role |-> ROLE_ASSISTANT, content |-> Str(<<c>>)]

\* body["messages"] of the runs explored
RunBodies == { <<UserMsg("q1")>>,
               <<SysMsg, UserMsg("q1")>>,
               <<UserMsg("q1"), AsstMsg("a1"), UserMsg("q2")>>,
               <<SysMsg, UserMsg("q1"), AsstMsg("a1"), UserMsg("q2")>> }

\* message["content"] of a model response: null, "", " ", or a text
Contents == { None, Str(<<>>), Str(<<" ">>), Str(<<"a", " ", "b">>) }

\* str(e) of a transport or protocol exception (httpx timeouts have an empty one)
ExcMsgs == { <<>>, <<"connection refused">> }

HttpError == [kind |-> "http_error", status |-> "500", text |-> "upstream failure"]

ToolNames == {EXA_ANSWER, EXA_CONTEXT, "other_tool"}

\* tool_call["function"]["arguments"]: a JSON object with "query", a JSON
\* object without it, or text that is no JSON
ARGS_OK == "{\"query\": \"q\"}"
ARGS_NO_QUERY == "{}"
ARGS_BAD_JSON == "{not json"
Arguments == {ARGS_OK, ARGS_NO_QUERY, ARGS_BAD_JSON}

CallId(i) == <<"call_", ToString(i)>>

\* the tool_calls lists of a response: ids unique within the response
ToolCallLists ==
    UNION { { [i \in 1..n |-> [id |-> CallId(i), name |-> f[i][1], arguments |-> f[i][2]]]
              : f \in [1..n -> ToolNames \X Arguments] }
            : n \in 0..MaxCalls }

\* the first model response: with tool calls its content is null
Responses1 ==
    { HttpError }
    \cup { [kind |-> "exception", msg |-> m] : m \in ExcMsgs }
    \cup { [kind |-> "ok",
            message |-> [role |-> ROLE_ASSISTANT, content |-> c, tool_calls |-> <<>>]]
           : c \in Contents }
    \cup { [kind |-> "ok",
            message |-> [role |-> ROLE_ASSISTANT, content |-> None, tool_calls |-> t]]
           : t \in ToolCallLists \ {<<>>} }

\* the second model response: it may again ask for tools
MoreToolCalls == << [id |-> CallId(9), name |-> EXA_ANSWER, arguments |-> ARGS_OK] >>

Responses2 ==
    { HttpError, [kind |-> "exception", msg |-> <<>>] }
    \cup { [kind |-> "ok",
            message |-> [role |-> ROLE_ASSISTANT, content |-> c, tool_calls |-> <<>>]]
           : c \in Contents }
    \cup { [kind |-> "ok",
            message |-> [role |-> ROLE_ASSISTANT, content |-> c, tool_calls |-> MoreToolCalls]]
           : c \in {None, Str(<<"a", " ", "b">>)} }

\* what the HTTP request of a Tool Invoker ends in
AnswerOutcomes ==
    { [kind |-> "ok", answer |-> <<"It is sunny.">>, citations |-> c] : c \in CitationLists }
    \cup { HttpError, [kind |-> "exception", msg |-> <<"timed out">>] }

ContextOutcomes ==
    { [kind |-> "ok", response |-> <<"def f(): ...">>, resultsCount |-> 3],
      HttpError, [kind |-> "exception", msg |-> <<"timed out">>] }

\* ------------------------------------------------- the Tool Invokers
\* mutant: a failure is returned as an empty text
exa_answer_search_silent(o) ==
    CASE o.kind = "ok" -> [result |-> o.answer, citations |-> o.citations]
      [] OTHER -> [result |-> <<>>, citations |-> <<>>]

\* exa_answer_search: (answer, citations), or an error text and no citation
exa_answer_search(o) ==
    CASE o.kind = "ok" -> [result |-> o.answer, citations |-> o.citations]
      [] o.kind = "http_error" ->
            [result |-> <<ERROR_SEARCHING>> \o ExaErrorMsg(o), citations |-> <<>>]
      [] o.kind = "exception" ->
            [result |-> <<ERROR_SEARCHING>> \o o.msg, citations |-> <<>>]

\* exa_context_search: the context text, never a citation
exa_context_search(o) ==
    CASE o.kind = "ok" ->
            [result |-> o.response \o <<"\n\nFound ", ToString(o.resultsCount),
                                        " relevant results.">>,
             citations |-> <<>>]
      [] o.kind = "http_error" ->
            [result |-> <<ERROR_SEARCHING>> \o ExaErrorMsg(o), citations |-> <<>>]
      [] o.kind = "exception" ->
            [result |-> <<ERROR_SEARCHING>> \o o.msg, citations |-> <<>>]

\* ------------------------------------------------------------- state
VARIABLES
    variant,        \* which pipe runs: "direct" or "crewai"
    valves,         \* self.valves: EXA_API_KEY, OPENROUTER_API_KEY (present?), EMIT_SOURCES
    event_emitter,  \* __event_emitter__ is not None
    body,           \* body["messages"] as the caller holds it
    pc,             \* position of the run
    messages,       \* the run's message list
    shares_body,    \* messages is the very list object body["messages"]
    all_citations,  \* the list passed to _call_openrouter_with_tools
    tool_calls,     \* tool_calls of the first model response
    idx,            \* 1-based position of the for loop over tool_calls
    result_text,    \* result_text of pipe (str | None)
    citations,      \* citations of pipe
    outcome,        \* how the orchestration loop ended: "none", "DONE", "ERROR"
    answer_last,    \* exa_answer_tool._last_citations: <<>> unset, <<list>> set
    context_last,   \* exa_context_tool._last_citations
    crew_result,    \* what crew.kickoff() ended in: <<>> before, <<result>> after
    raised,         \* the exception pipe raised to its caller: <<>> or <<message>>
    yielded,        \* the chunks the generator yielded, in order
    emitted,        \* the events handed to the event emitter, in order
    payloads,       \* the JSON payloads POSTed to the model, in order
    returned,       \* the citation lists the Tool Invokers returned, in order
    trace,          \* the outbound calls and deliveries of the run, in order
    responses,      \* what the model calls ended in, in order
    invoked,        \* the Tool Invoker calls that returned: request id, tool, how it ended
    valves0,        \* the valves as they were when the run started
    body0,          \* body["messages"] as it was when the run started
    runs,           \* the locals of each of two runs on one Pipe object
    heap,           \* the elements of the list objects the two runs refer to
    system_message  \* system_message of pipe: <<>> for None, or <<message>>

vars == << variant, valves, event_emitter, body, pc, messages, shares_body, all_citations,
           tool_calls, idx, result_text, citations, outcome, answer_last,
           context_last, crew_result, raised, yielded, emitted, payloads, returned, trace,
           responses, invoked, valves0, body0, runs, heap, system_message >>

Variants == {"direct", "crewai"}

ValveSets == [EXA_API_KEY : BOOLEAN, OPENROUTER_API_KEY : BOOLEAN, EMIT_SOURCES : BOOLEAN]

Init ==
    /\ variant \in Variants
    /\ valves \in ValveSets
    /\ event_emitter \in BOOLEAN
    /\ body \in RunBodies
    /\ pc = "INIT"
    /\ messages = <<>>
    /\ shares_body = FALSE
    /\ all_citations = <<>>
    /\ tool_calls = <<>>
    /\ idx = 0
    /\ result_text = None
    /\ citations = <<>>
    /\ outcome = "none"
    /\ answer_last = <<>>
    /\ context_last = <<>>
    /\ crew_result = <<>>
    /\ raised = <<>>
    /\ yielded = <<>>
    /\ emitted = <<>>
    /\ payloads = <<>>
    /\ returned = <<>>
    /\ trace = <<>>
    /\ responses = <<>>
    /\ invoked = <<>>
    /\ valves0 = valves
    /\ body0 = body
    /\ runs = <<>>
    /\ heap = <<>>
    /\ system_message = <<>>

loopVars == << messages, shares_body, all_citations, tool_calls, idx, result_text,
              citations, outcome >>
crewVars == << answer_last, context_last, crew_result >>
outVars == << raised, yielded, emitted >>
hostVars == << variant, valves, event_emitter, valves0, body0, runs, heap >>
envVars == << hostVars, system_message >>
histVars == << payloads, returned, responses, invoked >>

\* ------------------------------------------------ Pipe.pipe, the keys
\* mutant: only the Exa key is validated
MissingKey_exa_only ==
    IF ~valves.EXA_API_KEY THEN <<MSG_NO_EXA_KEY>> ELSE <<>>

\* "Validate API keys": the first missing key raises PipeExceptionError
MissingKey ==
    IF ~valves.EXA_API_KEY THEN <<MSG_NO_EXA_KEY>>
    ELSE IF ~valves.OPENROUTER_API_KEY THEN <<MSG_NO_OPENROUTER_KEY>>
    ELSE <<>>

ValidateKeys ==
    /\ pc = "INIT"
    /\ IF MissingKey # <<>>
         THEN /\ raised' = MissingKey
              /\ trace' = Append(trace, "raise")
              /\ pc' = "raised"
         ELSE /\ pc' = "compose"
              /\ UNCHANGED << raised, trace >>
    /\ UNCHANGED << loopVars, crewVars, envVars, body, yielded, emitted, histVars >>

\* ------------------------------------- Pipe.pipe (direct), composing
ContextMessage(prior) ==
    [role |-> ROLE_SYSTEM,
     content |-> Str(build_conversation_context(prior) \o <<"\n\n">> \o TOOLS_GUIDANCE)]

\* mutant: the prior messages are forwarded after the context message
ComposeMessages_keeps_history(impl, bodyMessages) ==
    LET popped == pop_system_message(impl, bodyMessages)
        ms == popped.rest
    IN IF Len(ms) > 1 /\ build_conversation_context(ButLast(ms)) # <<>>
         THEN [messages |-> <<ContextMessage(ButLast(ms))>> \o ms, shares |-> FALSE]
         ELSE [messages |-> ms, shares |-> popped.same]

\* mutant: the context message is built for a lone message too
ComposeMessages_always_context(impl, bodyMessages) ==
    LET popped == pop_system_message(impl, bodyMessages)
        ms == popped.rest
    IN IF Len(ms) > 0 /\ build_conversation_context(ButLast(ms)) # <<>>
         THEN [messages |-> <<ContextMessage(ButLast(ms))>> \o LastSlice(ms),
               shares |-> FALSE]
         ELSE [messages |-> ms, shares |-> popped.same]

\* [messages, shares]: the list to submit, and whether it is still the
\* caller's list object
ComposeMessages(impl, bodyMessages) ==
    LET popped == pop_system_message(impl, bodyMessages)
        ms == popped.rest
    IN IF Len(ms) > 1 /\ build_conversation_context(ButLast(ms)) # <<>>
         THEN [messages |-> <<ContextMessage(ButLast(ms))>> \o LastSlice(ms),
               shares |-> FALSE]
         ELSE [messages |-> ms, shares |-> popped.same]

DirectCompose ==
    /\ variant = "direct"
    /\ pc = "compose"
    /\ \E impl \in PopImpls :
          /\ system_message' = pop_system_message(impl, body).system
          /\ messages' = ComposeMessages(impl, body).messages
          /\ shares_body' = ComposeMessages(impl, body).shares
    /\ pc' = "MODEL_CALL_1"
    /\ UNCHANGED << all_citations, tool_calls, idx, result_text, citations, outcome,
                    crewVars, hostVars, body, outVars, histVars, trace >>

\* mutant: the message is inserted at the front
AppendMessage_prepend(m) ==
    /\ messages' = <<m>> \o messages
    /\ body' = IF shares_body THEN <<m>> \o body ELSE body

\* messages.append(m): the caller's list grows too when it is the same object
AppendMessage(m) ==
    /\ messages' = Append(messages, m)
    /\ body' = IF shares_body THEN Append(body, m) ELSE body

\* --------------------------- _call_openrouter_with_tools (the loop)
\* "return <text>, all_citations" of the loop, received by pipe as
\* (result_text, citations)
\* mutant: an error return gives up the citations accumulated so far
LoopReturn_drops_citations(text, how) ==
    /\ result_text' = text
    /\ citations' = IF how = "ERROR" THEN <<>> ELSE all_citations
    /\ outcome' = how
    /\ pc' = "returned"

LoopReturn(text, how) ==
    /\ result_text' = text
    /\ citations' = all_citations
    /\ outcome' = how
    /\ pc' = "returned"

\* mutant: a failed model call is submitted once more
HandleModelFailure_retry(resp) ==
    IF Count(trace, "model_fail") = 0
      THEN /\ pc' = "MODEL_CALL_1"
           /\ UNCHANGED << result_text, citations, outcome >>
      ELSE LoopReturn(Str(ErrorText(<<>>)), "ERROR")

\* mutant: the failure text is returned without the "Error: " prefix
HandleModelFailure_no_prefix(resp) ==
    IF resp.kind = "http_error"
      THEN LoopReturn(Str(OpenRouterErrorMsg(resp)), "ERROR")
      ELSE LoopReturn(Str(resp.msg), "ERROR")

\* except httpx.HTTPStatusError / except Exception of the loop
HandleModelFailure(resp) ==
    IF resp.kind = "http_error"
      THEN LoopReturn(Str(ErrorText(OpenRouterErrorMsg(resp))), "ERROR")
      ELSE LoopReturn(Str(ErrorText(resp.msg)), "ERROR")

\* the first POST: messages, the tool catalog, tool_choice auto
SubmitModelCall1 ==
    /\ pc = "MODEL_CALL_1"
    /\ payloads' = Append(payloads, [messages |-> messages, tools |-> TRUE])
    /\ trace' = Append(trace, "model_submit")
    /\ pc' = "await_1"
    /\ UNCHANGED << loopVars, crewVars, envVars, body, outVars, returned, responses, invoked >>

\* the first response: an error, a plain answer, or tool-call requests
HandleResponse1(resp) ==
    /\ pc = "await_1"
    /\ IF resp.kind # "ok"
         THEN /\ HandleModelFailure(resp)
              /\ trace' = Append(trace, "model_fail")
              /\ UNCHANGED << messages, body, tool_calls, idx >>
         ELSE /\ trace' = Append(trace, "model_ok")
              /\ IF Get(resp.message, "tool_calls", <<>>) = <<>>
                   THEN /\ LoopReturn(Get(resp.message, "content", Str(<<>>)), "DONE")
                        /\ UNCHANGED << messages, body, tool_calls, idx >>
                   ELSE /\ AppendMessage(resp.message)
                        /\ tool_calls' = resp.message.tool_calls
                        /\ idx' = 1
                        /\ pc' = "TOOL_PHASE"
                        /\ UNCHANGED << result_text, citations, outcome >>
    /\ responses' = Append(responses, resp)
    /\ UNCHANGED << shares_body, all_citations, crewVars, envVars, outVars, payloads, returned, invoked >>

\* mutant: a citation already accumulated is not added again
Extend_dedup(acc, cits) ==
    acc \o SelectSeq(cits, LAMBDA c : \A i \in DOMAIN acc : acc[i] # c)

\* all_citations.extend(citations)
Extend(acc, cits) == acc \o cits

ToolMessage(tc, result) ==
    [tool_call_id |-> tc.id, role |-> ROLE_TOOL, content |-> Str(result)]

\* str(e) of json.loads failing, and of the KeyError of function_args["query"]
JSON_DECODE_ERROR == <<"Expecting property name enclosed in double quotes">>
KEY_ERROR_QUERY == <<"'query'">>

\* mutant: the Tool Invoker is started and the loop goes on without awaiting it
ToolDispatch_concurrent ==
    /\ pc = "TOOL_PHASE"
    /\ idx <= Len(tool_calls)
    /\ trace' = Append(trace, "tool_submit")
    /\ idx' = idx + 1
    /\ UNCHANGED << pc, messages, body, all_citations, result_text, citations, outcome,
                    shares_body, tool_calls, crewVars, envVars, outVars, histVars >>

\* one iteration of "for tool_call in tool_calls" up to the await of the
\* Tool Invoker, or the whole iteration when no Tool Invoker is awaited
ToolDispatch ==
    /\ pc = "TOOL_PHASE"
    /\ idx <= Len(tool_calls)
    /\ LET tc == tool_calls[idx]
       IN IF tc.arguments = ARGS_BAD_JSON
            THEN \* json.loads raises: except Exception of the loop
                 /\ LoopReturn(Str(ErrorText(JSON_DECODE_ERROR)), "ERROR")
                 /\ UNCHANGED << messages, body, idx, all_citations, trace >>
            ELSE IF tc.name \in {EXA_ANSWER, EXA_CONTEXT}
              THEN IF ~valves.EXA_API_KEY
                     THEN /\ AppendMessage(ToolMessage(tc, TOOL_NO_EXA_KEY))
                          /\ all_citations' = Extend(all_citations, <<>>)
                          /\ idx' = idx + 1
                          /\ UNCHANGED << pc, result_text, citations, outcome, trace >>
                     ELSE IF tc.arguments = ARGS_NO_QUERY
                       THEN \* function_args["query"] raises KeyError
                            /\ LoopReturn(Str(ErrorText(KEY_ERROR_QUERY)), "ERROR")
                            /\ UNCHANGED << messages, body, idx, all_citations, trace >>
                       ELSE /\ pc' = "await_tool"
                            /\ trace' = Append(trace, "tool_submit")
                            /\ UNCHANGED << messages, body, idx, all_citations,
                                            result_text, citations, outcome >>
              ELSE /\ AppendMessage(ToolMessage(tc, <<UNKNOWN_TOOL, tc.name>>))
                   /\ idx' = idx + 1
                   /\ UNCHANGED << pc, all_citations, result_text, citations, outcome, trace >>
    /\ UNCHANGED << shares_body, tool_calls, crewVars, envVars, outVars, histVars >>

\* the awaited Tool Invoker returns: extend the citations, append the reply
InvokeTool(name, o) ==
    IF name = EXA_ANSWER THEN exa_answer_search(o) ELSE exa_context_search(o)

\* mutant: a Tool Invoker that reports a failure ends the loop
HandleToolResult_fatal(o) ==
    /\ pc = "await_tool"
    /\ o \in (IF tool_calls[idx].name = EXA_ANSWER THEN AnswerOutcomes ELSE ContextOutcomes)
    /\ LET r == InvokeTool(tool_calls[idx].name, o)
       IN /\ all_citations' = Extend(all_citations, r.citations)
          /\ returned' = Append(returned, r.citations)
          /\ IF o.kind = "ok"
               THEN /\ AppendMessage(ToolMessage(tool_calls[idx], r.result))
                    /\ idx' = idx + 1
                    /\ pc' = "TOOL_PHASE"
                    /\ UNCHANGED << result_text, citations, outcome >>
               ELSE /\ result_text' = Str(ErrorText(r.result))
                    /\ citations' = all_citations
                    /\ outcome' = "ERROR"
                    /\ pc' = "returned"
                    /\ UNCHANGED << messages, body, idx >>
    /\ invoked' = Append(invoked, [id |-> tool_calls[idx].id, name |-> tool_calls[idx].name,
                                   kind |-> o.kind])
    /\ trace' = Append(trace, "tool_return")
    /\ UNCHANGED << shares_body, tool_calls, crewVars, envVars, outVars, payloads, responses >>

\* mutant: the loop does not move on to the next request
HandleToolResult_no_advance(o) ==
    /\ pc = "await_tool"
    /\ o \in (IF tool_calls[idx].name = EXA_ANSWER THEN AnswerOutcomes ELSE ContextOutcomes)
    /\ LET r == InvokeTool(tool_calls[idx].name, o)
       IN /\ all_citations' = Extend(all_citations, r.citations)
          /\ returned' = Append(returned, r.citations)
          /\ AppendMessage(ToolMessage(tool_calls[idx], r.result))
    /\ invoked' = Append(invoked, [id |-> tool_calls[idx].id, name |-> tool_calls[idx].name,
                                   kind |-> o.kind])
    /\ trace' = Append(trace, "tool_return")
    /\ pc' = "TOOL_PHASE"
    /\ UNCHANGED << idx, shares_body, tool_calls, result_text, citations, outcome,
                    crewVars, envVars, outVars, payloads, responses >>

HandleToolResult(o) ==
    /\ pc = "await_tool"
    /\ o \in (IF tool_calls[idx].name = EXA_ANSWER THEN AnswerOutcomes ELSE ContextOutcomes)
    /\ LET r == InvokeTool(tool_calls[idx].name, o)
       IN /\ all_citations' = Extend(all_citations, r.citations)
          /\ returned' = Append(returned, r.citations)
          /\ AppendMessage(ToolMessage(tool_calls[idx], r.result))
    /\ idx' = idx + 1
    /\ invoked' = Append(invoked, [id |-> tool_calls[idx].id, name |-> tool_calls[idx].name,
                                   kind |-> o.kind])
    /\ trace' = Append(trace, "tool_return")
    /\ pc' = "TOOL_PHASE"
    /\ UNCHANGED << shares_body, tool_calls, result_text, citations, outcome,
                    crewVars, envVars, outVars, payloads, responses >>

\* mutant: the final POST carries the tool catalog again
SubmitModelCall2_with_tools ==
    /\ pc = "TOOL_PHASE"
    /\ idx > Len(tool_calls)
    /\ payloads' = Append(payloads, [messages |-> messages, tools |-> TRUE])
    /\ trace' = Append(trace, "model_submit")
    /\ pc' = "await_2"
    /\ UNCHANGED << loopVars, crewVars, envVars, body, outVars, returned, responses, invoked >>

\* the final POST: the full message list, no tool catalog
SubmitModelCall2 ==
    /\ pc = "TOOL_PHASE"
    /\ idx > Len(tool_calls)
    /\ payloads' = Append(payloads, [messages |-> messages, tools |-> FALSE])
    /\ trace' = Append(trace, "model_submit")
    /\ pc' = "await_2"
    /\ UNCHANGED << loopVars, crewVars, envVars, body, outVars, returned, responses, invoked >>

\* mutant: the fallback ignores the accumulated citations
FinalText_apology_only(content, cits) ==
    IF EmptyOrBlank(content) THEN APOLOGY ELSE content.s

\* the fallback of the loop for an empty final content
FinalText(content, cits) ==
    IF EmptyOrBlank(content)
      THEN IF cits # <<>> THEN LoopSummary(Len(cits)) ELSE APOLOGY
      ELSE content.s

\* mutant: tool calls of the final response open another tool round
HandleResponse2_more_rounds(resp) ==
    /\ pc = "await_2"
    /\ responses' = Append(responses, resp)
    /\ IF resp.kind = "ok" /\ resp.message.tool_calls # <<>>
         THEN /\ AppendMessage(resp.message)
              /\ tool_calls' = resp.message.tool_calls
              /\ idx' = 1
              /\ pc' = "TOOL_PHASE"
              /\ trace' = Append(trace, "model_ok")
              /\ UNCHANGED << result_text, citations, outcome >>
         ELSE /\ IF resp.kind # "ok"
                   THEN /\ HandleModelFailure(resp)
                        /\ trace' = Append(trace, "model_fail")
                   ELSE /\ LoopReturn(Str(FinalText(Get(resp.message, "content", Str(<<>>)),
                                                    all_citations)), "DONE")
                        /\ trace' = Append(trace, "model_ok")
              /\ UNCHANGED << messages, body, tool_calls, idx >>
    /\ UNCHANGED << shares_body, all_citations, crewVars, envVars, outVars, payloads, returned, invoked >>

HandleResponse2(resp) ==
    /\ pc = "await_2"
    /\ IF resp.kind # "ok"
         THEN /\ HandleModelFailure(resp)
              /\ trace' = Append(trace, "model_fail")
         ELSE /\ LoopReturn(Str(FinalText(Get(resp.message, "content", Str(<<>>)),
                                          all_citations)), "DONE")
              /\ trace' = Append(trace, "model_ok")
    /\ responses' = Append(responses, resp)
    /\ UNCHANGED << messages, shares_body, body, all_citations, tool_calls, idx,
                    crewVars, envVars, outVars, payloads, returned, invoked >>

\* ------------------------------------------------------ _emit_sources
SourcesEvent(cits) ==
    [type |-> "chat:completion", data |-> [sources |-> format_citations_as_sources(cits)]]

\* mutant: the EMIT_SOURCES valve is not consulted
EmitsSources_ignores_valve(cits) ==
    /\ cits # <<>>
    /\ event_emitter
    /\ format_citations_as_sources(cits) # <<>>

\* mutant: nothing is emitted for a run whose loop returned an error
EmitsSources_only_on_success(cits) ==
    /\ cits # <<>>
    /\ valves.EMIT_SOURCES
    /\ event_emitter
    /\ format_citations_as_sources(cits) # <<>>
    /\ outcome # "ERROR"

\* "if citations:" of pipe, then the two conditions of _emit_sources
EmitsSources(cits) ==
    /\ cits # <<>>
    /\ valves.EMIT_SOURCES
    /\ event_emitter
    /\ format_citations_as_sources(cits) # <<>>

EMITTER_ERROR == <<"emitter failed">>

\* mutant: the sources are emitted before the answer is yielded
EmitAfterYield_before_yield(ok) ==
    /\ pc = "returned"
    /\ ok
    /\ emitted = <<>>
    /\ EmitsSources(citations)
    /\ emitted' = Append(emitted, SourcesEvent(citations))
    /\ trace' = Append(trace, "emit")
    /\ UNCHANGED << pc, yielded, loopVars, crewVars, envVars, body, raised, histVars >>

\* mutant: one event per source instead of one event with the list
EmitAfterYield_per_source(ok) ==
    /\ pc = "yielded"
    /\ ok
    /\ IF EmitsSources(citations)
         THEN /\ emitted' = emitted \o [i \in 1..Len(citations) |->
                                          SourcesEvent(<<citations[i]>>)]
              /\ trace' = trace \o [i \in 1..Len(citations) |-> "emit"]
         ELSE UNCHANGED << emitted, trace >>
    /\ pc' = "finished"
    /\ UNCHANGED << yielded, loopVars, crewVars, envVars, body, raised, histVars >>

\* the code after the yield of the answer: the emitter is awaited; when it
\* raises, the except of pipe yields a second chunk
EmitAfterYield(ok) ==
    /\ pc = "yielded"
    /\ IF EmitsSources(citations)
         THEN /\ emitted' = Append(emitted, SourcesEvent(citations))
              /\ IF ok
                   THEN /\ trace' = Append(trace, "emit")
                        /\ UNCHANGED yielded
                   ELSE /\ yielded' = Append(yielded, ErrorText(EMITTER_ERROR))
                        /\ trace' = trace \o <<"emit", "yield">>
         ELSE /\ ok
              /\ UNCHANGED << emitted, yielded, trace >>
    /\ pc' = "finished"
    /\ UNCHANGED << loopVars, crewVars, envVars, body, raised, histVars >>

\* ------------------------------------ Pipe.pipe (direct), after the loop
\* mutant: no fallback for an empty result
PipeText_no_fallback(text, cits) == text.s

\* mutant: the emptiness test is inverted
PipeText_inverted(text, cits) ==
    IF ~EmptyOrBlank(text)
      THEN IF cits # <<>> THEN PipeSummary(Len(cits)) ELSE APOLOGY
      ELSE text.s

\* the text pipe yields for a result that is a str
PipeText(text, cits) ==
    IF EmptyOrBlank(text)
      THEN IF cits # <<>> THEN PipeSummary(Len(cits)) ELSE APOLOGY
      ELSE text.s

\* len(result_text) of the log line raises TypeError for None: except of pipe
DirectYield ==
    /\ variant = "direct"
    /\ pc = "returned"
    /\ IF result_text.none
         THEN /\ yielded' = Append(yielded, ErrorText(NONE_HAS_NO_LEN))
              /\ pc' = "finished"
         ELSE /\ yielded' = Append(yielded, PipeText(result_text, citations))
              /\ pc' = "yielded"
    /\ trace' = Append(trace, "yield")
    /\ UNCHANGED << loopVars, crewVars, envVars, body, raised, emitted, histVars >>

\* ------------------------------------------------ the valves, changed
\* self.valves is a field of the shared Pipe object: the host clears
\* EXA_API_KEY while the run is suspended at an await that precedes a read of it
UpdateValves ==
    /\ pc \in {"await_1", "await_tool"}
    /\ valves.EXA_API_KEY
    /\ valves' = [valves EXCEPT !.EXA_API_KEY = FALSE]
    /\ UNCHANGED << variant, event_emitter, valves0, body0, runs, heap, system_message, body, pc, loopVars, crewVars,
                    outVars, histVars, trace >>

\* ------------------------------------------------ Pipe.pipe (crewai)
CREW_SETUP_ERROR == <<"crew setup failed">>

\* the tools, the LLM, the Agent, the Task and the Crew are constructed;
\* a constructor that raises is re-raised to the except of pipe
CrewSetup(ok) ==
    /\ variant = "crewai"
    /\ pc = "compose"
    /\ IF ok
         THEN /\ pc' = "kickoff"
              /\ UNCHANGED << yielded, trace >>
         ELSE /\ yielded' = Append(yielded, ErrorText(CREW_SETUP_ERROR))
              /\ trace' = Append(trace, "yield")
              /\ pc' = "finished"
    /\ UNCHANGED << loopVars, crewVars, envVars, body, raised, emitted, histVars >>

\* crew.kickoff() is entered: the agent runtime makes its model calls
CrewKickoff ==
    /\ pc = "kickoff"
    /\ pc' = "crew_running"
    /\ trace' = Append(trace, "crew_kickoff")
    /\ UNCHANGED << loopVars, crewVars, envVars, body, outVars, histVars >>

\* getattr(tool, "_last_citations", [])
LastCitations(last) == IF last = <<>> THEN <<>> ELSE last[1]

\* mutant: the answer tool adds its citations to those it stored before
RunCrewTool_accumulates(name, o) ==
    /\ pc = "crew_running"
    /\ Count(trace, "crew_tool") < MaxCrewTools
    /\ o \in (IF name = EXA_ANSWER THEN AnswerOutcomes ELSE ContextOutcomes)
    /\ IF o.kind = "ok"
         THEN IF name = EXA_ANSWER
                THEN /\ answer_last' = << LastCitations(answer_last) \o o.citations >>
                     /\ UNCHANGED context_last
                ELSE /\ context_last' = << <<>> >>
                     /\ UNCHANGED answer_last
         ELSE UNCHANGED << answer_last, context_last >>
    /\ returned' = Append(returned, IF o.kind = "ok" /\ name = EXA_ANSWER
                                      THEN o.citations ELSE <<>>)
    /\ invoked' = Append(invoked, [id |-> <<>>, name |-> name, kind |-> o.kind])
    /\ trace' = Append(trace, "crew_tool")
    /\ UNCHANGED << pc, loopVars, envVars, body, outVars, payloads, responses, crew_result >>

\* ExaAnswerTool._arun / ExaContextTool._arun, called by the agent runtime
RunCrewTool(name, o) ==
    /\ pc = "crew_running"
    /\ Count(trace, "crew_tool") < MaxCrewTools
    /\ o \in (IF name = EXA_ANSWER THEN AnswerOutcomes ELSE ContextOutcomes)
    /\ IF o.kind = "ok"
         THEN IF name = EXA_ANSWER
                THEN /\ answer_last' = <<o.citations>>
                     /\ UNCHANGED context_last
                ELSE /\ context_last' = << <<>> >>
                     /\ UNCHANGED answer_last
         ELSE UNCHANGED << answer_last, context_last >>
    /\ returned' = Append(returned, IF o.kind = "ok" /\ name = EXA_ANSWER
                                      THEN o.citations ELSE <<>>)
    /\ invoked' = Append(invoked, [id |-> <<>>, name |-> name, kind |-> o.kind])
    /\ trace' = Append(trace, "crew_tool")
    /\ UNCHANGED << pc, loopVars, envVars, body, outVars, payloads, responses, crew_result >>

\* what crew.kickoff() ends in: an exception, None, or an output whose raw
\* is null, "", " " or a text
CrewResults ==
    { [kind |-> "raise", msg |-> <<"LLM call failed">>], [kind |-> "none"] }
    \cup { [kind |-> "raw", raw |-> c] : c \in Contents }

CREW_NONE == <<"CrewAI returned None result">>
CREW_EMPTY == <<"Empty result from CrewAI execution">>

\* mutant: only an exception of kickoff and a None result are replaced
CrewResultText_blank_passes(res) ==
    CASE res.kind = "raise" -> CrewApology(res.msg)
      [] res.kind = "none" -> CrewApology(CREW_NONE)
      [] res.kind = "raw" ->
           IF res.raw.none THEN CrewApology(NONE_HAS_NO_LEN)
           ELSE res.raw.s

\* the try/except around crew.kickoff()
CrewResultText(res) ==
    CASE res.kind = "raise" -> CrewApology(res.msg)
      [] res.kind = "none" -> CrewApology(CREW_NONE)
      [] res.kind = "raw" ->
           IF res.raw.none THEN CrewApology(NONE_HAS_NO_LEN)
           ELSE IF res.raw.s = <<>> \/ IsBlank(res.raw.s) THEN CrewApology(CREW_EMPTY)
           ELSE res.raw.s

\* "Combine citations from both tools"
CombineCitations(a, c) ==
    (IF a # <<>> THEN a ELSE <<>>) \o (IF c # <<>> THEN c ELSE <<>>)

HandleCrewResult(res) ==
    /\ pc = "crew_running"
    /\ result_text' = Str(CrewResultText(res))
    /\ citations' = CombineCitations(LastCitations(answer_last), LastCitations(context_last))
    /\ pc' = "returned"
    /\ crew_result' = <<res>>
    /\ trace' = Append(trace, "crew_return")
    /\ UNCHANGED << messages, shares_body, all_citations, tool_calls, idx, outcome,
                    answer_last, context_last, envVars, body, outVars, histVars >>

CrewYield ==
    /\ variant = "crewai"
    /\ pc = "returned"
    /\ yielded' = Append(yielded, result_text.s)
    /\ trace' = Append(trace, "yield")
    /\ pc' = "yielded"
    /\ UNCHANGED << loopVars, crewVars, envVars, body, raised, emitted, histVars >>

\* ------------------------------------------ the awaited calls return
ReturnModelCall1 == pc = "await_1" /\ \E resp \in Responses1 : HandleResponse1(resp)

ToolReturn ==
    pc = "await_tool" /\ \E o \in AnswerOutcomes \cup ContextOutcomes : HandleToolResult(o)

ReturnModelCall2 == pc = "await_2" /\ \E resp \in Responses2 : HandleResponse2(resp)

CrewToolRun ==
    pc = "crew_running"
    /\ \E name \in {EXA_ANSWER, EXA_CONTEXT}, o \in AnswerOutcomes \cup ContextOutcomes :
          RunCrewTool(name, o)

CrewReturn == pc = "crew_running" /\ \E res \in CrewResults : HandleCrewResult(res)

\* ------------------------------------------------------ specification
Next ==
    \/ ValidateKeys
    \/ DirectCompose
    \/ SubmitModelCall1
    \/ ReturnModelCall1
    \/ ToolDispatch
    \/ ToolReturn
    \/ SubmitModelCall2
    \/ ReturnModelCall2
    \/ DirectYield
    \/ \E ok \in BOOLEAN : EmitAfterYield(ok)
    \/ UpdateValves
    \/ \E ok \in BOOLEAN : CrewSetup(ok)
    \/ CrewKickoff
    \/ CrewToolRun
    \/ CrewReturn
    \/ CrewYield

Spec == Init /\ [][Next]_vars

\* --------------------------------- the direct pipe alone, with progress
\* The run is one coroutine: a step that is enabled is taken, and an awaited
\* model call or Tool Invoker call comes back (at the latest by its timeout).
DirectInit == Init /\ variant = "direct"

DirectNext ==
    \/ ValidateKeys
    \/ DirectCompose
    \/ SubmitModelCall1
    \/ ReturnModelCall1
    \/ ToolDispatch
    \/ ToolReturn
    \/ SubmitModelCall2
    \/ ReturnModelCall2
    \/ DirectYield
    \/ \E ok \in BOOLEAN : EmitAfterYield(ok)
    \/ UpdateValves

LiveSpec == DirectInit /\ [][DirectNext]_vars /\ WF_vars(DirectNext)

\* ------------------------------------------ pop_system_message, on its own
SysMsg2 == [role |-> ROLE_SYSTEM, content |-> Str(<<"be kind">>)]

ToolMsg == [role |-> ROLE_TOOL, content |-> Str(<<"t1">>)]

PopMessages == {SysMsg, SysMsg2, UserMsg("q1"), AsstMsg("a1"), ToolMsg}

PopInputs == UNION { [1..n -> PopMessages] : n \in 0..MaxPopLen }

PopInit ==
    /\ body \in PopInputs
    /\ pc = "pop"
    /\ variant = "direct"
    /\ valves = [EXA_API_KEY |-> TRUE, OPENROUTER_API_KEY |-> TRUE, EMIT_SOURCES |-> TRUE]
    /\ event_emitter = TRUE
    /\ messages = <<>>
    /\ shares_body = FALSE
    /\ all_citations = <<>>
    /\ tool_calls = <<>>
    /\ idx = 0
    /\ result_text = None
    /\ citations = <<>>
    /\ outcome = "none"
    /\ answer_last = <<>>
    /\ context_last = <<>>
    /\ crew_result = <<>>
    /\ raised = <<>>
    /\ yielded = <<>>
    /\ emitted = <<>>
    /\ payloads = <<>>
    /\ returned = <<>>
    /\ trace = <<>>
    /\ responses = <<>>
    /\ invoked = <<>>
    /\ valves0 = valves
    /\ body0 = body
    /\ runs = <<>>
    /\ heap = <<>>
    /\ system_message = <<>>

\* system_message, messages = pop_system_message(body.get("messages", []))
\* with the function of open_webui/utils/misc.py, or with the fallback
PopSystemMessage(impl) ==
    /\ pc = "pop"
    /\ system_message' = pop_system_message(impl, body).system
    /\ messages' = pop_system_message(impl, body).rest
    /\ shares_body' = pop_system_message(impl, body).same
    /\ pc' = IF impl = "mock" THEN "popped_mock" ELSE "popped_fallback"
    /\ UNCHANGED << all_citations, tool_calls, idx, result_text, citations, outcome,
                    crewVars, hostVars, body, outVars, histVars, trace >>

PopMock == PopSystemMessage("mock")
PopFallback == PopSystemMessage("fallback")

\* lines 461-481 in one step: the pop and the context message
PopCompose(impl) ==
    /\ pc = "pop"
    /\ system_message' = pop_system_message(impl, body).system
    /\ messages' = ComposeMessages(impl, body).messages
    /\ shares_body' = ComposeMessages(impl, body).shares
    /\ pc' = IF impl = "mock" THEN "composed_mock" ELSE "composed_fallback"
    /\ UNCHANGED << all_citations, tool_calls, idx, result_text, citations, outcome,
                    crewVars, hostVars, body, outVars, histVars, trace >>

ComposeMock == PopCompose("mock")
ComposeFallback == PopCompose("fallback")

PopNext == PopMock \/ PopFallback \/ ComposeMock \/ ComposeFallback

PopSpec == PopInit /\ [][PopNext]_vars

\* ------------------------- _format_citations_as_sources, on its own
\* citation dicts: every key absent, every key empty, every key set, a text
\* of exactly 500 characters and one of 501
CIT_NO_KEYS == [k \in {} |-> <<>>]
CIT_EMPTY_VALUES ==
    [url |-> <<>>, title |-> <<>>, author |-> <<>>, publishedDate |-> <<>>, text |-> <<>>]
CIT_FULL ==
    [url |-> <<"https://z">>, title |-> <<"Z">>, author |-> <<"B">>,
     publishedDate |-> <<"2024-01-01">>, text |-> <<"z", "z">>]
CIT_500 == [url |-> <<"https://m">>, text |-> [i \in 1..500 |-> "m"]]
CIT_501 == [url |-> <<"https://n">>, publishedDate |-> <<"2023-05-05">>,
            text |-> [i \in 1..500 |-> "n"] \o <<"!">>]

FormatCitationSet == {CIT_X, CIT_Y, CIT_NO_KEYS, CIT_EMPTY_VALUES, CIT_FULL, CIT_500, CIT_501}

FormatInputs == UNION { [1..n -> FormatCitationSet] : n \in 0..MaxFormatLen }

FormatInit ==
    /\ variant \in Variants
    /\ citations \in FormatInputs
    /\ pc = "format"
    /\ valves = [EXA_API_KEY |-> TRUE, OPENROUTER_API_KEY |-> TRUE, EMIT_SOURCES |-> TRUE]
    /\ event_emitter = TRUE
    /\ body = <<>>
    /\ messages = <<>>
    /\ shares_body = FALSE
    /\ all_citations = <<>>
    /\ tool_calls = <<>>
    /\ idx = 0
    /\ result_text = None
    /\ outcome = "none"
    /\ answer_last = <<>>
    /\ context_last = <<>>
    /\ crew_result = <<>>
    /\ raised = <<>>
    /\ yielded = <<>>
    /\ emitted = <<>>
    /\ payloads = <<>>
    /\ returned = <<>>
    /\ trace = <<>>
    /\ responses = <<>>
    /\ invoked = <<>>
    /\ valves0 = valves
    /\ body0 = body
    /\ runs = <<>>
    /\ heap = <<>>
    /\ system_message = <<>>

\* sources = self._format_citations_as_sources(citations), handed on in the
\* event of _emit_sources
FormatCitations ==
    /\ pc = "format"
    /\ emitted' = <<SourcesEvent(citations)>>
    /\ pc' = "formatted"
    /\ UNCHANGED << loopVars, crewVars, envVars, body, raised, yielded, histVars, trace >>

FormatNext == FormatCitations

FormatSpec == FormatInit /\ [][FormatNext]_vars

\* ------------------------------------------------ test_valve.test_pipe
\* A chunk a pipe yields: a str, or a dict.  For a str, json is what
\* json.loads gives for the text from its first "{" on ([ok |-> FALSE] when
\* there is no "{" or the text is no JSON).
PlainChunk(s) == [type |-> "str", s |-> s, json |-> [ok |-> FALSE]]

\* mutant: a str chunk that is no SSE line is taken as text
ChunkContent_plain_too(chunk) ==
    IF chunk.type = "str"
      THEN IF chunk.s # <<>> /\ chunk.s[1] = "data:"
             THEN IF chunk.json.ok /\ Get(chunk.json.data, "choices", <<>>) # <<>>
                    THEN Get(Get(chunk.json.data.choices[1], "delta", <<>>), "content", <<>>)
                    ELSE <<>>
             ELSE chunk.s
      ELSE IF Get(chunk.data, "choices", <<>>) # <<>>
             THEN Get(Get(chunk.data.choices[1], "message", <<>>), "content", <<>>)
             ELSE <<>>

\* what the loop body of test_pipe adds to response_content for one chunk
ChunkContent(chunk) ==
    IF chunk.type = "str"
      THEN IF chunk.s # <<>> /\ chunk.s[1] = "data:"
             THEN IF chunk.json.ok /\ Get(chunk.json.data, "choices", <<>>) # <<>>
                    THEN Get(Get(chunk.json.data.choices[1], "delta", <<>>), "content", <<>>)
                    ELSE <<>>
             ELSE <<>>
      ELSE IF Get(chunk.data, "choices", <<>>) # <<>>
             THEN Get(Get(chunk.data.choices[1], "message", <<>>), "content", <<>>)
             ELSE <<>>

\* response_content after "async for chunk in pipe_instance.pipe(...)"
test_pipe(chunks) == Flatten([i \in DOMAIN chunks |-> ChunkContent(chunks[i])])

\* ------------------------------- two runs on one Pipe object (direct)
\* The list objects of the process: heap maps an object to its elements.
\* runs[r] holds the locals of run r; body and msgs are references.
Runs == {1, 2}

ListObjects == {"body1", "body2", "msgs1", "msgs2", "cits1", "cits2"}

BodyObject(r) == IF r = 1 THEN "body1" ELSE "body2"
MessagesObject(r) == IF r = 1 THEN "msgs1" ELSE "msgs2"

\* the "[]" of "self._call_openrouter_with_tools(messages, [])"
CitationsObject(r) == IF r = 1 THEN "cits1" ELSE "cits2"

RunQuery(r) == UserMsg(IF r = 1 THEN "q1" ELSE "p1")
RunBody(r) == IF r = 1 THEN <<RunQuery(1)>>
              ELSE <<UserMsg("p0"), AsstMsg("b0"), RunQuery(2)>>
RunAnswer(r) == <<"answer ", ToString(r)>>
RunCitation(r) == [url |-> <<"https://run", ToString(r)>>, title |-> <<"R", ToString(r)>>]

RunToolCalls(r) ==
    { [i \in 1..n |-> [id |-> <<"run", ToString(r), "_call_", ToString(i)>>,
                       name |-> EXA_ANSWER, arguments |-> ARGS_OK]] : n \in 1..MaxCalls }

RunResponses1(r) ==
    { HttpError,
      [kind |-> "ok", message |-> [role |-> ROLE_ASSISTANT, content |-> Str(RunAnswer(r)),
                                   tool_calls |-> <<>>]] }
    \cup { [kind |-> "ok", message |-> [role |-> ROLE_ASSISTANT, content |-> None,
                                        tool_calls |-> t]] : t \in RunToolCalls(r) }

RunResponses2(r) ==
    { HttpError }
    \cup { [kind |-> "ok", message |-> [role |-> ROLE_ASSISTANT, content |-> c,
                                        tool_calls |-> <<>>]]
           : c \in {Str(RunAnswer(r)), Str(<<>>)} }

RunToolOutcomes(r) ==
    { [kind |-> "ok", answer |-> RunAnswer(r), citations |-> <<RunCitation(r)>>],
      [kind |-> "exception", msg |-> <<"timed out">>] }

IdleRun(i) ==
    [impl |-> i, pc |-> "idle", body |-> "none", msgs |-> "none", cits |-> "none",
     supplied |-> <<>>, cits0 |-> <<>>, tool_calls |-> <<>>, idx |-> 0,
     appended |-> <<>>, returned |-> <<>>, payloads |-> <<>>, result_text |-> None,
     yielded |-> <<>>, emitted |-> <<>>]

TwoInit ==
    /\ \E i \in PopImpls : runs = [r \in Runs |-> IdleRun(i)]
    /\ heap = [o \in ListObjects |-> <<>>]
    /\ variant = "direct"
    /\ valves = [EXA_API_KEY |-> TRUE, OPENROUTER_API_KEY |-> TRUE, EMIT_SOURCES |-> TRUE]
    /\ event_emitter = TRUE
    /\ pc = "two_runs"
    /\ body = <<>>
    /\ messages = <<>>
    /\ shares_body = FALSE
    /\ all_citations = <<>>
    /\ tool_calls = <<>>
    /\ idx = 0
    /\ result_text = None
    /\ citations = <<>>
    /\ outcome = "none"
    /\ answer_last = <<>>
    /\ context_last = <<>>
    /\ crew_result = <<>>
    /\ raised = <<>>
    /\ yielded = <<>>
    /\ emitted = <<>>
    /\ payloads = <<>>
    /\ returned = <<>>
    /\ trace = <<>>
    /\ responses = <<>>
    /\ invoked = <<>>
    /\ valves0 = valves
    /\ body0 = body
    /\ system_message = <<>>

singleVars == << variant, valves, event_emitter, valves0, body0, system_message, body, pc, loopVars,
                 crewVars, outVars, histVars, trace >>

\* the assistant message test_valve.main appends after a turn, if any
HarnessReply(chunks) ==
    IF test_pipe(chunks) # <<>>
      THEN << [role |-> ROLE_ASSISTANT, content |-> Str(test_pipe(chunks))] >>
      ELSE <<>>

\* The caller builds the request and calls pipe(); the run goes on to the
\* await of its first POST.  With reuse, the caller is the conversation loop
\* of test_valve.main: its one list, to which the next user message is
\* appended once the previous turn has completed.
StartRun(r, reuse) ==
    /\ runs[r].pc = "idle"
    /\ reuse => r = 2 /\ runs[1].pc = "finished"
    /\ LET b == IF reuse THEN runs[1].body ELSE BodyObject(r)
           reply == HarnessReply([i \in DOMAIN runs[1].yielded |->
                                     PlainChunk(runs[1].yielded[i])])
           list == IF reuse THEN heap[b] \o reply \o <<RunQuery(r)>> ELSE RunBody(r)
           sup == IF reuse THEN runs[1].supplied \o reply \o <<RunQuery(r)>> ELSE RunBody(r)
           comp == ComposeMessages(runs[r].impl, list)
           m == IF comp.shares THEN b ELSE MessagesObject(r)
           c == CitationsObject(r)
       IN /\ heap' = [o \in ListObjects |->
                        IF o = c THEN <<>>
                        ELSE IF o = m THEN comp.messages
                        ELSE IF o = b THEN list
                        ELSE heap[o]]
          /\ runs' = [runs EXCEPT ![r] =
                        [@ EXCEPT !.pc = "await_1", !.body = b, !.msgs = m, !.cits = c,
                                  !.supplied = sup, !.cits0 = heap'[c],
                                  !.payloads = << [messages |-> comp.messages,
                                                   tools |-> TRUE] >>]]
    /\ UNCHANGED singleVars

\* the first response of run r, up to the await of the first Tool Invoker
RunResponse1(r, resp) ==
    /\ runs[r].pc = "await_1"
    /\ resp \in RunResponses1(r)
    /\ IF resp.kind # "ok"
         THEN /\ runs' = [runs EXCEPT ![r].pc = "returned",
                                      ![r].result_text = Str(ErrorText(OpenRouterErrorMsg(resp)))]
              /\ UNCHANGED heap
         ELSE IF resp.message.tool_calls = <<>>
           THEN /\ runs' = [runs EXCEPT ![r].pc = "returned",
                                        ![r].result_text = resp.message.content]
                /\ UNCHANGED heap
           ELSE /\ heap' = [heap EXCEPT ![runs[r].msgs] = Append(@, resp.message)]
                /\ runs' = [runs EXCEPT ![r].pc = "await_tool",
                                        ![r].tool_calls = resp.message.tool_calls,
                                        ![r].idx = 1,
                                        ![r].appended = Append(@, resp.message)]
    /\ UNCHANGED singleVars

\* a Tool Invoker of run r returns; the loop goes on to the next await
RunToolReturn(r, o) ==
    /\ runs[r].pc = "await_tool"
    /\ o \in RunToolOutcomes(r)
    /\ LET res == exa_answer_search(o)
           reply == ToolMessage(runs[r].tool_calls[runs[r].idx], res.result)
           last == runs[r].idx = Len(runs[r].tool_calls)
       IN /\ heap' = [o2 \in ListObjects |->
                        IF o2 = runs[r].cits THEN Extend(heap[o2], res.citations)
                        ELSE IF o2 = runs[r].msgs THEN Append(heap[o2], reply)
                        ELSE heap[o2]]
          /\ runs' = [runs EXCEPT ![r] =
                        [@ EXCEPT !.idx = @ + 1,
                                  !.appended = Append(@, reply),
                                  !.returned = Append(@, res.citations),
                                  !.pc = IF last THEN "await_2" ELSE "await_tool",
                                  !.payloads = IF last
                                      THEN Append(@, [messages |-> heap'[runs[r].msgs],
                                                      tools |-> FALSE])
                                      ELSE @]]
    /\ UNCHANGED singleVars

RunResponse2(r, resp) ==
    /\ runs[r].pc = "await_2"
    /\ resp \in RunResponses2(r)
    /\ runs' = [runs EXCEPT ![r].pc = "returned",
                            ![r].result_text =
                               IF resp.kind # "ok"
                                 THEN Str(ErrorText(OpenRouterErrorMsg(resp)))
                                 ELSE Str(FinalText(resp.message.content, heap[runs[r].cits]))]
    /\ UNCHANGED << heap, singleVars >>

RunYield(r) ==
    /\ runs[r].pc = "returned"
    /\ runs' = [runs EXCEPT ![r].pc = "yielded",
                            ![r].yielded = << PipeText(runs[r].result_text,
                                                       heap[runs[r].cits]) >>]
    /\ UNCHANGED << heap, singleVars >>

RunEmit(r) ==
    /\ runs[r].pc = "yielded"
    /\ runs' = [runs EXCEPT ![r].pc = "finished",
                            ![r].emitted = IF EmitsSources(heap[runs[r].cits])
                                             THEN << SourcesEvent(heap[runs[r].cits]) >>
                                             ELSE <<>>]
    /\ UNCHANGED << heap, singleVars >>

TwoStart == \E r \in Runs, reuse \in BOOLEAN : StartRun(r, reuse)
TwoResponse1 == \E r \in Runs : \E resp \in RunResponses1(r) : RunResponse1(r, resp)
TwoToolReturn == \E r \in Runs : \E o \in RunToolOutcomes(r) : RunToolReturn(r, o)
TwoResponse2 == \E r \in Runs : \E resp \in RunResponses2(r) : RunResponse2(r, resp)
TwoYield == \E r \in Runs : RunYield(r)
TwoEmit == \E r \in Runs : RunEmit(r)

TwoNext ==
    \/ TwoStart
    \/ TwoResponse1
    \/ TwoToolReturn
    \/ TwoResponse2
    \/ TwoYield
    \/ TwoEmit

TwoRunSpec == TwoInit /\ [][TwoNext]_vars

\* ===================================================== properties
\* the tool-role messages of the run's message list, in order
ToolReplies == SelectSeq(messages, LAMBDA m : m.role = ROLE_TOOL)

RequestIds == [i \in 1..Len(tool_calls) |-> tool_calls[i].id]
ReplyIds == [i \in 1..Len(ToolReplies) |-> ToolReplies[i].tool_call_id]

Delivered == pc \in {"yielded", "finished"}

\* the first model response is a message without tool calls
FirstResponsePlain ==
    /\ Len(responses) >= 1
    /\ responses[1].kind = "ok"
    /\ Get(responses[1].message, "tool_calls", <<>>) = <<>>

FirstContent == Get(responses[1].message, "content", Str(<<>>))

\* the second model response is a message whose text is empty or blank
SecondResponseEmpty ==
    /\ Len(responses) = 2
    /\ responses[2].kind = "ok"
    /\ EmptyOrBlank(Get(responses[2].message, "content", Str(<<>>)))

\* C1: in the direct pipe, when the loop has ended, the tool-role messages
\* appended carry exactly the ids of the tool-call requests of the first
\* model response, one each and in the order of the requests.
C1_ReplyPerRequest ==
    (variant = "direct" /\ outcome # "none") => ReplyIds = RequestIds

\* C2: every text a run of the direct pipe has delivered is neither empty nor
\* whitespace-only, and a run that completed has delivered one.
C2_FinalTextNotBlank ==
    (variant = "direct" /\ Delivered) =>
        /\ yielded # <<>>
        /\ \A i \in DOMAIN yielded : yielded[i] # <<>> /\ ~IsBlank(yielded[i])

\* a blank first answer was replaced by the apology
C2_Witness ==
    /\ variant = "direct"
    /\ pc = "finished"
    /\ FirstResponsePlain
    /\ FirstContent = Str(<<" ">>)
    /\ yielded = <<APOLOGY>>

\* C3: in both pipes a source event is handed to the emitter only after the
\* answer text was yielded: never an emitted event without a yielded text,
\* and every emission in the run's trace is preceded by a yield.
C3_SourcesAfterText ==
    /\ emitted # <<>> => yielded # <<>>
    /\ \A i \in DOMAIN trace :
          trace[i] = "emit" => \E j \in 1..(i - 1) : trace[j] = "yield"

C3_Witness ==
    /\ variant = "crewai"
    /\ pc = "finished"
    /\ emitted # <<>>
    /\ trace[Len(trace)] = "emit"

\* C4: in the direct pipe the accumulated citation list is the concatenation,
\* in call order, of the citation lists the tool invocations returned.
C4_CitationsConcatenated ==
    variant = "direct" =>
        /\ all_citations = Flatten(returned)
        /\ outcome # "none" => citations = Flatten(returned)

\* two invocations, the second repeating a citation of the first
C4_Witness ==
    /\ variant = "direct"
    /\ pc = "finished"
    /\ returned = << <<CIT_Y, CIT_X>>, <<CIT_X>> >>
    /\ citations = <<CIT_Y, CIT_X, CIT_X>>

\* C5: a run started with the Exa key or the OpenRouter key absent raises to
\* its caller at validation: no model call, no tool call, no crew kickoff, no
\* yielded chunk and no emitted sources.
C5_MissingKeyRaises ==
    ((~valves0.EXA_API_KEY \/ ~valves0.OPENROUTER_API_KEY) /\ pc # "INIT") =>
        /\ pc = "raised"
        /\ raised # <<>>
        /\ trace = <<"raise">>
        /\ payloads = <<>>
        /\ returned = <<>>
        /\ yielded = <<>>
        /\ emitted = <<>>

C5_Witness ==
    /\ pc = "raised"
    /\ valves0.EXA_API_KEY
    /\ ~valves0.OPENROUTER_API_KEY
    /\ raised = <<MSG_NO_OPENROUTER_KEY>>

\* C6 (as claimed): when the first model response has no tool calls, the run
\* makes one model call and no tool invocation, delivers the response's text
\* verbatim, has no citation and emits nothing.
C6_PlainAnswerVerbatim ==
    (variant = "direct" /\ Delivered /\ FirstResponsePlain) =>
        /\ Len(payloads) = 1
        /\ Count(trace, "tool_submit") = 0
        /\ citations = <<>>
        /\ emitted = <<>>
        /\ yielded[1] = Fmt(FirstContent)

\* C6 (amended): as above, but the text is delivered verbatim only when it is
\* a string that is not empty or whitespace-only; an empty or whitespace-only
\* text is replaced by the apology and a null content by an "Error: " text.
C6_PlainAnswerAmended ==
    (variant = "direct" /\ Delivered /\ FirstResponsePlain) =>
        /\ Len(payloads) = 1
        /\ Count(trace, "tool_submit") = 0
        /\ returned = <<>>
        /\ citations = <<>>
        /\ emitted = <<>>
        /\ yielded[1] = ( IF FirstContent.none THEN ErrorText(NONE_HAS_NO_LEN)
                          ELSE IF FirstContent.s = <<>> \/ IsBlank(FirstContent.s) THEN APOLOGY
                          ELSE FirstContent.s )

C6_Witness ==
    /\ variant = "direct"
    /\ pc = "finished"
    /\ FirstResponsePlain
    /\ FirstContent = Str(<<"a", " ", "b">>)
    /\ yielded = << <<"a", " ", "b">> >>

\* C7: a run of the direct pipe submits at most two model calls; every tool
\* invocation lies between the first and the second submission, there are no
\* more invocations than requests in the first response, and once the second
\* call is submitted the loop is never again in its tool phase.
C7_TwoCallsOneRound ==
    variant = "direct" =>
        /\ Len(payloads) <= 2
        /\ Count(trace, "model_submit") = Len(payloads)
        /\ Len(payloads) = 2 => pc \notin {"MODEL_CALL_1", "await_1", "TOOL_PHASE", "await_tool"}
        /\ Len(responses) = 2 => pc \in {"returned", "yielded", "finished"}
        /\ \A i \in DOMAIN trace :
              trace[i] = "tool_submit" => Count(SubSeq(trace, 1, i), "model_submit") = 1
        /\ Count(trace, "tool_submit") <= Len(tool_calls)

\* the second response asked for a tool again and the run completed
C7_Witness ==
    /\ variant = "direct"
    /\ pc = "finished"
    /\ Len(responses) = 2
    /\ responses[2].kind = "ok"
    /\ responses[2].message.tool_calls # <<>>
    /\ Count(trace, "tool_submit") = 2

\* the state of the orchestration loop (its INIT covers validation and
\* composing; after the loop has returned, how it ended)
Phase ==
    CASE pc \in {"INIT", "compose"} -> "INIT"
      [] pc = "raised" -> "ERROR"
      [] pc \in {"MODEL_CALL_1", "await_1"} -> "MODEL_CALL_1"
      [] pc \in {"TOOL_PHASE", "await_tool"} -> "TOOL_PHASE"
      [] pc = "await_2" -> "MODEL_CALL_2"
      [] OTHER -> outcome

Phases == {"INIT", "MODEL_CALL_1", "TOOL_PHASE", "MODEL_CALL_2", "DONE", "ERROR"}

PhaseOrder ==
    { <<p, p>> : p \in Phases }
    \cup { <<"INIT", "MODEL_CALL_1">>, <<"MODEL_CALL_1", "DONE">>,
           <<"MODEL_CALL_1", "TOOL_PHASE">>, <<"TOOL_PHASE", "MODEL_CALL_2">>,
           <<"MODEL_CALL_2", "DONE">> }
    \cup { <<p, "ERROR">> : p \in Phases \ {"DONE"} }

\* C8: every step of a run of the direct pipe keeps or advances the phase along
\* INIT, MODEL_CALL_1, then DONE or TOOL_PHASE, MODEL_CALL_2, DONE (ERROR from
\* any phase before DONE); a tool is invoked only by a step taken in TOOL_PHASE,
\* after the first model call returned and before a second was submitted; and
\* in ERROR no model call is submitted and no tool is invoked.
C8_PhaseOrder ==
    [][ variant = "direct" =>
          /\ <<Phase, Phase'>> \in PhaseOrder
          /\ Count(trace', "tool_submit") # Count(trace, "tool_submit") =>
                /\ Phase = "TOOL_PHASE"
                /\ Count(trace, "model_ok") = 1
                /\ Count(trace, "model_submit") = 1
          /\ Phase = "ERROR" =>
                /\ Phase' = "ERROR"
                /\ payloads' = payloads
                /\ Count(trace', "tool_submit") = Count(trace, "tool_submit")
                /\ Count(trace', "model_submit") = Count(trace, "model_submit") ]_vars

\* a run that went through every phase up to DONE
C8_Witness ==
    /\ variant = "direct"
    /\ pc = "finished"
    /\ outcome = "DONE"
    /\ Count(trace, "tool_return") = 2
    /\ Len(payloads) = 2

\* C9: after a failed model call the direct pipe submits no model call and
\* invokes no tool, the loop has ended in ERROR, and the text delivered begins
\* with "Error: ".
C9_ModelFailureIsFinal ==
    variant = "direct" =>
        /\ \A i \in DOMAIN trace :
              trace[i] = "model_fail" =>
                 \A j \in (i + 1)..Len(trace) : trace[j] \notin {"model_submit", "tool_submit"}
        /\ Count(trace, "model_fail") > 0 =>
              /\ outcome = "ERROR"
              /\ pc \in {"returned", "yielded", "finished"}
              /\ Delivered => /\ yielded # <<>>
                              /\ yielded[1] # <<>>
                              /\ yielded[1][1] = ERROR_PREFIX

\* the second model call failed after a tool had returned
C9_Witness ==
    /\ variant = "direct"
    /\ pc = "finished"
    /\ Len(responses) = 2
    /\ responses[2].kind = "http_error"
    /\ returned # <<>>

\* the text is the three-part summary stating the count n
IsSummaryOf(text, n) ==
    /\ Len(text) = 3
    /\ text[2] = ToString(n)
    /\ text[3] = " relevant sources that should help answer your question."

\* C10: when the text of the second model response is empty or
\* whitespace-only, the loop's result and the text delivered are the summary
\* stating the number of citations the tool invocations returned when that
\* number is at least one, and the generic apology when it is zero.
C10_EmptyFinalFallback ==
    (variant = "direct" /\ SecondResponseEmpty) =>
        LET n == Len(Flatten(returned))
        IN /\ ~result_text.none
           /\ n >= 1 => IsSummaryOf(result_text.s, n)
           /\ n = 0 => result_text.s = APOLOGY
           /\ Delivered => yielded[1] = result_text.s

\* an empty final answer after three citations were accumulated
C10_Witness ==
    /\ variant = "direct"
    /\ pc = "finished"
    /\ SecondResponseEmpty
    /\ Len(all_citations) = 3
    /\ yielded = << LoopSummary(3) >>

\* a tool-role message whose text is the error description of a Tool Invoker
FailedReply(m) ==
    /\ m.role = ROLE_TOOL
    /\ ~m.content.none
    /\ m.content.s # <<>>
    /\ m.content.s[1] = ERROR_SEARCHING

AnyToolFailed == \E i \in DOMAIN invoked : invoked[i].kind # "ok"

\* a failed Tool Invoker is never what ends the loop in ERROR
ToolFailureNotFatal ==
    (variant = "direct" /\ AnyToolFailed) =>
        /\ outcome = "ERROR" =>
              \/ Count(trace, "model_fail") > 0
              \/ idx <= Len(tool_calls) /\ tool_calls[idx].arguments # ARGS_OK
        /\ outcome = "DONE" => Len(payloads) = 2 /\ ReplyIds = RequestIds
        /\ (Len(responses) = 2 /\ responses[2].kind = "ok") => outcome = "DONE"

\* C11: in the direct pipe, the step on which a Tool Invoker comes back with a
\* transport failure (an HTTP error status or an exception) appends one
\* tool-role message with the request's id and an error description, adds no
\* citation, and leaves the loop in its tool phase at the next request; a run
\* with such a failure ends in ERROR only for a failed model call or a request
\* whose arguments cannot be read, and with a second model response it is DONE
\* after two model calls and one reply per request.
C11_ToolFailureNonFatal ==
    [][ /\ ToolFailureNotFatal'
        /\ ( /\ variant = "direct"
             /\ Len(invoked') = Len(invoked) + 1
             /\ invoked'[Len(invoked')].kind # "ok" ) =>
              /\ messages' = Append(messages, messages'[Len(messages')])
              /\ FailedReply(messages'[Len(messages')])
              /\ messages'[Len(messages')].tool_call_id = tool_calls[idx].id
              /\ all_citations' = all_citations
              /\ idx' = idx + 1
              /\ pc' = "TOOL_PHASE"
              /\ outcome' = "none" ]_vars

\* the first invocation timed out, the second returned citations, and the
\* run completed with the text of the second model call
C11_Witness ==
    /\ variant = "direct"
    /\ pc = "finished"
    /\ outcome = "DONE"
    /\ Len(invoked) = 2
    /\ invoked[1].kind = "exception"
    /\ invoked[2].kind = "ok"
    /\ FailedReply(ToolReplies[1])
    /\ citations # <<>>
    /\ Len(payloads) = 2

\* the request the loop is about to process names no tool of the catalog, or
\* names one while the Exa key is absent
RequestUnserviceable ==
    /\ variant = "direct"
    /\ pc = "TOOL_PHASE"
    /\ idx <= Len(tool_calls)
    /\ \/ tool_calls[idx].name \notin {EXA_ANSWER, EXA_CONTEXT}
       \/ ~valves.EXA_API_KEY

\* C12: in the direct pipe, the step that processes a request whose tool name
\* is unrecognized, or whose Exa key is absent at that time, invokes no tool,
\* appends exactly one tool-role message carrying the request's id and a text
\* of the form "Error: <reason>", leaves the accumulated citations unchanged
\* and moves the loop on to the next request.
C12_UnserviceableRequest ==
    [][ RequestUnserviceable =>
          /\ trace' = trace
          /\ invoked' = invoked
          /\ messages' = Append(messages, messages'[Len(messages')])
          /\ messages'[Len(messages')].role = ROLE_TOOL
          /\ messages'[Len(messages')].tool_call_id = tool_calls[idx].id
          /\ ~messages'[Len(messages')].content.none
          /\ messages'[Len(messages')].content.s[1] = ERROR_PREFIX
          /\ all_citations' = all_citations
          /\ idx' = idx + 1
          /\ pc' = "TOOL_PHASE" ]_vars

\* C13: in both pipes the event emitter is called at most once in a run,
\* whatever the model calls, the tools and the crew ended in.
C13_EmitAtMostOnce ==
    /\ Len(emitted) <= 1
    /\ Count(trace, "emit") <= 1

\* three citations went out in one event
C13_Witness ==
    /\ variant = "direct"
    /\ pc = "finished"
    /\ Len(citations) = 3
    /\ Len(emitted) = 1
    /\ Len(emitted[1].data.sources) = 3

\* C14: a run that passed the validation of the keys never has delivered more
\* than one text chunk, and when it has completed it has delivered exactly one.
C14_ExactlyOneChunk ==
    /\ Len(yielded) <= 1
    /\ pc = "finished" => Len(yielded) = 1

\* the emitter is absent, or there is nothing to cite, or the valve is off
EmissionSkipped == ~event_emitter \/ citations = <<>> \/ ~valves.EMIT_SOURCES

\* C15: when no event emitter was supplied, or the citation list of the run
\* is empty, or the EMIT_SOURCES valve is false, the emitter is never called,
\* and the run that had its answer text completes with that text as its only
\* chunk: skipping the emission is no error.
C15_SilentSkip ==
    (EmissionSkipped /\ pc \in {"returned", "yielded", "finished"}) =>
        /\ emitted = <<>>
        /\ Count(trace, "emit") = 0
        /\ (pc = "finished" /\ ~result_text.none) =>
              /\ Len(yielded) = 1
              /\ yielded[1] = (IF variant = "direct" THEN PipeText(result_text, citations)
                                ELSE result_text.s)

\* citations and an emitter, but the valve is off
C15_Witness ==
    /\ pc = "finished"
    /\ citations # <<>>
    /\ event_emitter
    /\ ~valves.EMIT_SOURCES
    /\ emitted = <<>>
    /\ Len(yielded) = 1

\* the messages of the first POST to the model
Submitted == payloads[1].messages

\* sub occurs in text as a run of consecutive tokens
Contains(text, sub) ==
    \E k \in 1..(Len(text) - Len(sub) + 1) : SubSeq(text, k, k + Len(sub) - 1) = sub

\* C16: in the direct pipe, when the request holds at least one message before
\* its last one once the system message is extracted, the first model call is
\* given exactly two messages: a system-role message that begins with the
\* summary of the prior messages, then the last message of the request; none
\* of the prior messages is among them.
C16_HistoryIsSummarized ==
    (variant = "direct" /\ payloads # <<>>) =>
        \E impl \in PopImpls :
           LET ms == pop_system_message(impl, body0).rest
           IN Len(ms) > 1 =>
                /\ Len(Submitted) = 2
                /\ Submitted[1].role = ROLE_SYSTEM
                /\ Submitted[1].content.s[1] = "Previous conversation:\n\n"
                /\ Contains(Submitted[1].content.s, ContextBlocks(ButLast(ms)))
                /\ Submitted[2] = ms[Len(ms)]
                /\ \A i \in 1..(Len(ms) - 1), j \in DOMAIN Submitted : Submitted[j] # ms[i]

\* a system message and two prior turns: the call got the summary and "q2"
C16_Witness ==
    /\ variant = "direct"
    /\ Len(body0) = 4
    /\ payloads # <<>>
    /\ Len(Submitted) = 2
    /\ Submitted[2] = UserMsg("q2")
    /\ Contains(Submitted[1].content.s, <<"User: ", "q1", "\n\n", "Assistant: ", "a1", "\n\n">>)

\* C17: in the direct pipe, when the request carries a system-role message,
\* the messages given to the first model call include the text of those
\* system instructions, and the last message of the request.
C17_SystemInstructionsSubmitted ==
    (variant = "direct" /\ payloads # <<>> /\ FirstSystem(body0) # <<>>) =>
        /\ \E j \in DOMAIN Submitted :
              Contains(Submitted[j].content.s, FirstSystem(body0)[1].content.s)
        /\ Submitted[Len(Submitted)] = body0[Len(body0)]

\* C18: in the direct pipe, when the request holds only the current user
\* message, the first model call is given exactly that message, unchanged,
\* and no system-role message.
C18_LoneMessageUnmodified ==
    (variant = "direct" /\ payloads # <<>> /\ Len(body0) = 1 /\ body0[1].role = ROLE_USER) =>
        /\ Submitted = body0
        /\ \A j \in DOMAIN Submitted : Submitted[j].role # ROLE_SYSTEM

C18_Witness ==
    /\ variant = "direct"
    /\ pc = "await_1"
    /\ body0 = <<UserMsg("q1")>>
    /\ payloads = << [messages |-> <<UserMsg("q1")>>, tools |-> TRUE] >>

\* the sources the formatter produced
Formatted == emitted[1].data.sources

C20_SourceFields ==
    pc = "formatted" =>
        \A k \in DOMAIN citations :
           LET c == citations[k]
               f == Formatted[k]
               url == IF "url" \in DOMAIN c THEN c.url ELSE <<>>
               text == IF "text" \in DOMAIN c THEN c.text ELSE <<>>
               has(key) == key \in DOMAIN c /\ c[key] # <<>>
           IN /\ f.source.urls = <<url>>
              /\ Len(f.document) = 1
              /\ f.document[1] = (IF text = <<>> THEN PREVIEW_FALLBACK
                                   ELSE IF Len(text) <= 500 THEN text
                                   ELSE SubSeq(text, 1, 500))
              /\ Len(f.metadata) = 1
              /\ f.metadata[1].source = url
              /\ "author" \in DOMAIN f.metadata[1] <=> has("author")
              /\ "publishedDate" \in DOMAIN f.metadata[1] <=> has("publishedDate")
              /\ has("author") => f.metadata[1].author = c.author
              /\ has("publishedDate") => f.metadata[1].publishedDate = c.publishedDate
              /\ DOMAIN f.metadata[1] \subseteq {"source", "author", "publishedDate"}

\* a text of 501 characters cut to 500, beside a citation whose values are
\* all empty
C20_Witness ==
    /\ pc = "formatted"
    /\ citations = <<CIT_501, CIT_EMPTY_VALUES>>
    /\ Len(Formatted[1].document[1]) = 500
    /\ DOMAIN Formatted[1].metadata[1] = {"source", "publishedDate"}
    /\ Formatted[2].document = <<PREVIEW_FALLBACK>>
    /\ DOMAIN Formatted[2].metadata[1] = {"source"}
    /\ Formatted[2].source.urls = << <<>> >>


\* C21: a citation that has no title is formatted with the placeholder title
\* "Source N", N its 1-based position in the list: its display name is
\* "[N] Source N".
C21_PlaceholderTitle ==
    pc = "formatted" =>
        \A n \in DOMAIN citations :
           "title" \notin DOMAIN citations[n] =>
              Formatted[n].source.name = <<"[", ToString(n), "] ", "Source ", ToString(n)>>

\* the second of two citations has no title
C21_Witness ==
    /\ pc = "formatted"
    /\ citations = <<CIT_FULL, CIT_NO_KEYS>>
    /\ Formatted[1].source.name = <<"[", "1", "] ", "Z">>
    /\ Formatted[2].source.name = <<"[", "2", "] ", "Source ", "2">>


\* C22: for every interleaving of two runs of the direct pipe on one Pipe
\* object, each run starts with an empty citation list; its first model call
\* is given the messages composed from what its caller supplied and its
\* second those followed by the messages the run itself appended; and the
\* citations it accumulates and the sources it emits are those its own tool
\* invocations returned.
C22_RunsIndependent ==
    pc = "two_runs" =>
        \A r \in Runs :
           runs[r].pc # "idle" =>
              /\ runs[r].cits0 = <<>>
              /\ runs[r].payloads[1].messages =
                    ComposeMessages(runs[r].impl, runs[r].supplied).messages
              /\ Len(runs[r].payloads) = 2 =>
                    runs[r].payloads[2].messages =
                       runs[r].payloads[1].messages \o runs[r].appended
              /\ heap[runs[r].cits] = Flatten(runs[r].returned)
              /\ runs[r].emitted # <<>> =>
                    runs[r].emitted = << SourcesEvent(Flatten(runs[r].returned)) >>


\* C23: in a run of the direct pipe at most one tool invocation is in flight;
\* one is in flight exactly while the loop awaits it; and when the invocation
\* for the k-th request starts, every earlier request has its tool message
\* appended, in the order of the requests, and every earlier invocation has
\* returned.
C23_ToolsSequential ==
    variant = "direct" =>
        LET started == Count(trace, "tool_submit")
            ended == Count(trace, "tool_return")
        IN /\ started - ended \in {0, 1}
           /\ started - ended = 1 <=> pc = "await_tool"
           /\ Len(invoked) = ended
           /\ pc = "await_tool" =>
                 /\ Len(ToolReplies) = idx - 1
                 /\ \A k \in 1..(idx - 1) : ToolReplies[k].tool_call_id = tool_calls[k].id
           /\ \A i, j \in DOMAIN invoked :
                 i < j => \E a, b \in DOMAIN tool_calls :
                             /\ a < b
                             /\ tool_calls[a].id = invoked[i].id
                             /\ tool_calls[b].id = invoked[j].id

\* the second invocation is in flight, the first has returned and is replied
C23_Witness ==
    /\ variant = "direct"
    /\ pc = "await_tool"
    /\ idx = 2
    /\ Len(invoked) = 1
    /\ Len(ToolReplies) = 1
    /\ Count(trace, "tool_submit") = 2

\* C24: in the direct pipe the first model call is submitted with the tool
\* catalog; the second is submitted without it and with the full message
\* list: the messages of the first call, then the assistant message of the
\* first response with its tool-call requests, then one tool reply per
\* request; the assistant message is in the list only when the first response
\* holds a tool call, and it stands before every tool reply.
C24_SecondCallPayload ==
    (variant = "direct" /\ payloads # <<>>) =>
        /\ payloads[1].tools
        /\ Len(payloads) = 2 =>
              /\ ~payloads[2].tools
              /\ payloads[2].messages = messages
              /\ payloads[2].messages =
                    payloads[1].messages \o <<responses[1].message>> \o ToolReplies
              /\ Len(ToolReplies) = Len(responses[1].message.tool_calls)
        /\ (\E i \in DOMAIN messages : "tool_calls" \in DOMAIN messages[i]) =>
              /\ responses # <<>>
              /\ responses[1].kind = "ok"
              /\ responses[1].message.tool_calls # <<>>
              /\ messages[Len(payloads[1].messages) + 1] = responses[1].message
        /\ \A i \in DOMAIN messages :
              messages[i].role = ROLE_TOOL => i > Len(payloads[1].messages) + 1
        /\ FirstResponsePlain => messages = payloads[1].messages

\* the second call is in flight with the assistant message and two replies
C24_Witness ==
    /\ variant = "direct"
    /\ pc = "await_2"
    /\ Len(payloads) = 2
    /\ Len(payloads[1].messages) = 2
    /\ Len(payloads[2].messages) = 5
    /\ payloads[2].messages[3].tool_calls = tool_calls
    /\ payloads[2].messages[5].role = ROLE_TOOL

\* a is a prefix of b
IsPrefix(a, b) == Len(a) <= Len(b) /\ SubSeq(b, 1, Len(a)) = a

\* C25: from the first model call of a run of the direct pipe onward, every
\* step leaves the message sequence as it was or longer with the previous
\* sequence as its prefix: no message is reordered, removed or edited.
C25_AppendOnly ==
    [][ (variant = "direct" /\ payloads # <<>>) => IsPrefix(messages, messages') ]_vars

\* a completed run whose list grew by the assistant message and two replies
C25_Witness ==
    /\ variant = "direct"
    /\ pc = "finished"
    /\ Len(payloads) = 2
    /\ Len(messages) = Len(payloads[1].messages) + 3
    /\ IsPrefix(payloads[1].messages, messages)


\* the tool-role messages appended for the request with this id
RepliesTo(id) == SelectSeq(ToolReplies, LAMBDA m : m.tool_call_id = id)

\* C26: in the direct pipe every Tool Invoker call comes back to the loop with
\* a result text and a citation list, whatever the HTTP request ended in: the
\* loop has one non-empty tool reply for each call; and when the request ended
\* in an error status, a timeout or another exception, the citation list is
\* empty and the text is "Error searching: " followed by the description.
C26_InvokersNeverRaise ==
    variant = "direct" =>
        /\ Len(returned) = Len(invoked)
        /\ \A i \in DOMAIN invoked :
              /\ Len(RepliesTo(invoked[i].id)) = 1
              /\ ~RepliesTo(invoked[i].id)[1].content.none
              /\ RepliesTo(invoked[i].id)[1].content.s # <<>>
              /\ invoked[i].kind # "ok" =>
                    /\ returned[i] = <<>>
                    /\ RepliesTo(invoked[i].id)[1].content.s[1] = ERROR_SEARCHING
              /\ invoked[i].kind = "http_error" =>
                    RepliesTo(invoked[i].id)[1].content.s =
                       <<ERROR_SEARCHING, "Exa API error: ", "500", " - ", "upstream failure">>
              /\ invoked[i].kind = "exception" =>
                    RepliesTo(invoked[i].id)[1].content.s = <<ERROR_SEARCHING, "timed out">>

\* an error status from the answer search, then a timeout of the context search
C26_Witness ==
    /\ variant = "direct"
    /\ pc = "TOOL_PHASE"
    /\ Len(invoked) = 2
    /\ invoked[1].name = EXA_ANSWER
    /\ invoked[1].kind = "http_error"
    /\ invoked[2].name = EXA_CONTEXT
    /\ invoked[2].kind = "exception"
    /\ returned = << <<>>, <<>> >>
    /\ Len(ToolReplies) = 2


\* C27: when every awaited model call and tool invocation comes back, a run of
\* the direct pipe that passed the validation of its keys leads to a state
\* where the loop has ended in DONE or ERROR and a text was delivered; and
\* at no time has the run started more tool invocations than the first model
\* response holds requests.
C27_RunTerminates ==
    /\ (pc = "compose") ~> ( /\ pc = "finished"
                             /\ outcome \in {"DONE", "ERROR"}
                             /\ yielded # <<>> )
    /\ [](Count(trace, "tool_submit") <= Len(tool_calls))

\* a completed run that invoked a tool for each of its two requests and had
\* nothing to emit
C27_Witness ==
    /\ pc = "finished"
    /\ outcome = "DONE"
    /\ Len(tool_calls) = 2
    /\ Count(trace, "tool_submit") = 2
    /\ citations = <<>>
    /\ trace[Len(trace)] = "yield"


\* the positions of the system-role messages of a list
SystemPositions(ms) == {i \in DOMAIN ms : ms[i].role = ROLE_SYSTEM}

\* C28: pop_system_message of open_webui/utils/misc.py returns the first
\* system-role message of its input, or None when there is none, and the
\* messages that are not system-role in the order they had; the list it
\* returns holds no system-role message, and the input list is as it was.
C28_MockPop ==
    pc = "popped_mock" =>
        /\ system_message =
              ( IF SystemPositions(body0) = {} THEN <<>>
                ELSE << body0[CHOOSE i \in SystemPositions(body0) :
                                 \A j \in SystemPositions(body0) : i <= j] >> )
        /\ messages = SelectSeq(body0, LAMBDA m : m.role # ROLE_SYSTEM)
        /\ SystemPositions(messages) = {}
        /\ body = body0

\* two different system messages around a user message
C28_Witness ==
    /\ pc = "popped_mock"
    /\ body0 = <<SysMsg2, UserMsg("q1"), SysMsg>>
    /\ system_message = <<SysMsg2>>
    /\ messages = <<UserMsg("q1")>>


\* the messages left by pop_system_message in a run of PopSpec that has
\* composed its message list
PoppedRest ==
    pop_system_message(IF pc = "composed_mock" THEN "mock" ELSE "fallback", body0).rest

\* the messages before the last one whose role is user or assistant
PriorTurns ==
    SelectSeq(ButLast(PoppedRest),
              LAMBDA m : m.role \in {ROLE_USER, ROLE_ASSISTANT})

\* C29: the conversation context holds one block for each message before
\* the last whose role is user or assistant, "User: " or "Assistant: "
\* followed by its content, in the order of the messages; a message with
\* another role gives no block, and the last message is outside the context
\* and forwarded after it.
C29_ContextBlocks ==
    (pc \in {"composed_mock", "composed_fallback"} /\ Len(PoppedRest) > 1) =>
        LET ctx == messages[1].content.s
        IN  /\ Len(messages) = 2
            /\ messages[1].role = ROLE_SYSTEM
            /\ messages[2] = PoppedRest[Len(PoppedRest)]
            /\ Len(ctx) = 1 + 3 * Len(PriorTurns) + 1 + Len(TOOLS_GUIDANCE)
            /\ ctx[1] = "Previous conversation:\n\n"
            /\ \A i \in 1..Len(PriorTurns) :
                  /\ ctx[3 * i - 1] = (IF PriorTurns[i].role = ROLE_USER
                                         THEN "User: " ELSE "Assistant: ")
                  /\ << ctx[3 * i] >> = PriorTurns[i].content.s
                  /\ ctx[3 * i + 1] = "\n\n"
            /\ SubSeq(ctx, 3 * Len(PriorTurns) + 2, Len(ctx)) = <<"\n\n">> \o TOOLS_GUIDANCE

\* a tool reply between two turns, before the current question
C29_Witness ==
    /\ pc = "composed_fallback"
    /\ body0 = <<UserMsg("q1"), ToolMsg, AsstMsg("a1"), UserMsg("q1")>>
    /\ Len(PriorTurns) = 2
    /\ Len(messages) = 2
    /\ messages[2] = UserMsg("q1")


\* the chunks test_pipe receives from a run: each text the pipe yielded, a str
HarnessChunks == [i \in DOMAIN yielded |-> PlainChunk(yielded[i])]

\* C30: when a run has completed, what test_pipe returns for it is the
\* concatenation, in order, of the texts the pipe yielded.
C30_HarnessReturnsResponse ==
    pc = "finished" => test_pipe(HarnessChunks) = Flatten(yielded)


\* the run is past the return of _call_openrouter_with_tools
AfterLoop == pc \in {"returned", "yielded", "finished"}

\* the loop is about to process the request tool_calls[idx]
AtRequest == variant = "direct" /\ pc = "TOOL_PHASE" /\ idx <= Len(tool_calls)

\* the arguments of the request do not decode, or decode without "query"
MalformedArguments(tc) == tc.arguments \in {ARGS_BAD_JSON, ARGS_NO_QUERY}

\* the arguments do not decode, or "query" is missing where it is read: for
\* one of the two search tools, with EXA_API_KEY set
FatalArguments(tc) ==
    \/ tc.arguments = ARGS_BAD_JSON
    \/ /\ tc.arguments = ARGS_NO_QUERY
       /\ tc.name \in {EXA_ANSWER, EXA_CONTEXT}
       /\ valves.EXA_API_KEY

\* the step ends the loop with an error text and the citations so far: no
\* reply is appended, no Tool Invoker is called, no payload is submitted
RunLevelError ==
    /\ messages' = messages
    /\ invoked' = invoked
    /\ payloads' = payloads
    /\ pc' = "returned"
    /\ outcome' = "ERROR"
    /\ ~result_text'.none
    /\ result_text'.s # <<>>
    /\ result_text'.s[1] = ERROR_PREFIX
    /\ citations' = Flatten(returned)

\* once the loop has returned, no request is processed and no model call made
LoopIsOver ==
    (variant = "direct" /\ AfterLoop) =>
        /\ AfterLoop'
        /\ messages' = messages
        /\ invoked' = invoked
        /\ payloads' = payloads
        /\ Count(trace', "tool_submit") = Count(trace, "tool_submit")

\* C31 as stated: in the direct pipe, processing a request whose arguments
\* do not decode as JSON or lack "query" ends the loop as a run-level error:
\* no reply for it, no later request, no second model call, an "Error: "
\* text with the citations of the earlier requests.
C31_MalformedIsRunLevel ==
    /\ [][ (AtRequest /\ MalformedArguments(tool_calls[idx])) => RunLevelError ]_vars
    /\ [][ LoopIsOver ]_vars

\* C31, amended: the same for arguments that do not decode, and for
\* arguments without "query" when the request names one of the two search
\* tools and EXA_API_KEY is set at that moment.
C31_FatalArguments ==
    /\ [][ (AtRequest /\ FatalArguments(tool_calls[idx])) => RunLevelError ]_vars
    /\ [][ LoopIsOver ]_vars

\* the second of two requests lacks "query"; the first one gave a citation
C31_Witness ==
    /\ variant = "direct"
    /\ pc = "finished"
    /\ outcome = "ERROR"
    /\ Len(tool_calls) = 2
    /\ idx = 2
    /\ tool_calls[2].arguments = ARGS_NO_QUERY
    /\ tool_calls[2].name = EXA_ANSWER
    /\ valves.EXA_API_KEY
    /\ Len(ToolReplies) = 1
    /\ Len(payloads) = 1
    /\ citations # <<>>
    /\ yielded # <<>>
    /\ yielded[1][1] = ERROR_PREFIX


\* the second model call of a run of the direct pipe has failed
SecondCallFailed ==
    /\ variant = "direct"
    /\ Len(responses) = 2
    /\ responses[2].kind # "ok"

\* position of the first occurrence of e in a list, 0 when there is none
FirstIndex(seq, e) ==
    IF \E i \in DOMAIN seq : seq[i] = e
      THEN CHOOSE i \in DOMAIN seq : seq[i] = e /\ \A j \in 1..(i - 1) : seq[j] # e
      ELSE 0

\* C32: in the direct pipe, when the second model call has failed after the
\* tools gave at least one citation, the loop returns an "Error: " text with
\* all the citations accumulated; the text is what the run delivers, nothing
\* is emitted before it, and the completed run, when it has an emitter and
\* EMIT_SOURCES is true, has called the emitter once, after the text, with
\* the sources of those citations.
C32_CitationsSurviveFailure ==
    (SecondCallFailed /\ all_citations # <<>>) =>
        /\ outcome = "ERROR"
        /\ citations = all_citations
        /\ citations = Flatten(returned)
        /\ ~result_text.none /\ result_text.s[1] = ERROR_PREFIX
        /\ Delivered => yielded[1] = result_text.s
        /\ pc # "finished" => emitted = <<>>
        /\ (pc = "finished" /\ event_emitter /\ valves.EMIT_SOURCES) =>
              /\ emitted = << SourcesEvent(all_citations) >>
              /\ Len(emitted[1].data.sources) = Len(all_citations)
              /\ 0 < FirstIndex(trace, "yield")
              /\ FirstIndex(trace, "yield") < FirstIndex(trace, "emit")

\* an HTTP error of the second call after two citations: text, then sources
C32_Witness ==
    /\ SecondCallFailed
    /\ responses[2] = HttpError
    /\ pc = "finished"
    /\ Len(all_citations) = 2
    /\ yielded = << ErrorText(OpenRouterErrorMsg(HttpError)) >>
    /\ Len(emitted) = 1
    /\ Len(emitted[1].data.sources) = 2


\* C33: throughout a run of the direct pipe, the list the caller supplied as
\* body["messages"] holds the elements it held when the run was started, in
\* the same order.
C33_BodyNeverMutated ==
    variant = "direct" => body = body0


\* the other of the two functions
OtherPop(ms) ==
    IF pc = "popped_mock" THEN pop_system_message_fallback(ms)
    ELSE pop_system_message_mock(ms)

\* C34: for a message list whose system-role messages, if any, are one
\* message at index 0, the pair (system message, remaining messages) that
\* the fallback pop_system_message returns equals the pair the function of
\* open_webui/utils/misc.py returns.
C34_PopFunctionsAgree ==
    (pc \in {"popped_mock", "popped_fallback"} /\ SystemPositions(body0) \subseteq {1}) =>
        /\ system_message = OtherPop(body0).system
        /\ messages = OtherPop(body0).rest

\* the fallback took a leading system message off a conversation
C34_Witness ==
    /\ pc = "popped_fallback"
    /\ body0 = <<SysMsg, UserMsg("q1"), AsstMsg("a1"), UserMsg("q1")>>
    /\ system_message = <<SysMsg>>
    /\ messages = <<UserMsg("q1"), AsstMsg("a1"), UserMsg("q1")>>
    /\ pop_system_message_mock(body0).rest = messages


\* the invocations of the answer tool that succeeded, by position in invoked
OkAnswerRuns ==
    {i \in DOMAIN invoked : invoked[i].name = EXA_ANSWER /\ invoked[i].kind = "ok"}

\* the citations of the most recent of them, none when there is no such one
LatestAnswerCitations ==
    IF OkAnswerRuns = {} THEN <<>>
    ELSE returned[CHOOSE i \in OkAnswerRuns : \A j \in OkAnswerRuns : j <= i]

\* C35: in the CrewAI pipe, the citations of a run are those the most recent
\* successful invocation of the answer tool returned (the context tool
\* stores none), and an emission carries the sources of exactly these: what
\* an earlier invocation returned is not emitted.
C35_LatestCitationsOnly ==
    (variant = "crewai" /\ AfterLoop) =>
        /\ citations = LatestAnswerCitations
        /\ context_last \in { <<>>, << <<>> >> }
        /\ emitted # <<>> => emitted = << SourcesEvent(LatestAnswerCitations) >>
        /\ (pc = "finished" /\ raised = <<>> /\ EmitsSources(LatestAnswerCitations))
              => emitted # <<>>

\* two successful answer searches: two citations, then one, which is emitted
C35_Witness ==
    /\ variant = "crewai"
    /\ pc = "finished"
    /\ Len(invoked) = 2
    /\ OkAnswerRuns = {1, 2}
    /\ Len(returned[1]) = 2
    /\ Len(returned[2]) = 1
    /\ Len(emitted) = 1
    /\ Len(emitted[1].data.sources) = 1


\* crew.kickoff() raised, returned None, or returned an empty or blank text
CrewFailed ==
    /\ variant = "crewai"
    /\ crew_result # <<>>
    /\ \/ crew_result[1].kind \in {"raise", "none"}
       \/ /\ crew_result[1].kind = "raw"
          /\ ~crew_result[1].raw.none
          /\ (crew_result[1].raw.s = <<>> \/ IsBlank(crew_result[1].raw.s))

\* str(e) of the exception the except around kickoff receives
CrewFailureReason ==
    CASE crew_result[1].kind = "raise" -> crew_result[1].msg
      [] crew_result[1].kind = "none" -> CREW_NONE
      [] OTHER -> CREW_EMPTY

\* C36: in the CrewAI pipe, when crew execution raised, returned None, or
\* returned an empty or whitespace-only text, the text of the run is the
\* apology that names the error, neither empty nor blank; the citations the
\* tools stored are collected all the same, the apology is what is delivered,
\* and the sources are emitted after it, never before.
C36_CrewFailureApology ==
    CrewFailed =>
        /\ result_text = Str(CrewApology(CrewFailureReason))
        /\ result_text.s # <<>> /\ ~IsBlank(result_text.s)
        /\ citations = LatestAnswerCitations
        /\ Delivered => yielded[1] = result_text.s
        /\ pc # "finished" => emitted = <<>>
        /\ (pc = "finished" /\ EmitsSources(citations)) =>
              /\ emitted = << SourcesEvent(citations) >>
              /\ 0 < FirstIndex(trace, "yield")
              /\ FirstIndex(trace, "yield") < FirstIndex(trace, "emit")

\* a blank crew output after a search that gave two citations
C36_Witness ==
    /\ CrewFailed
    /\ crew_result[1].kind = "raw"
    /\ crew_result[1].raw = Str(<<" ">>)
    /\ pc = "finished"
    /\ yielded = << CrewApology(CREW_EMPTY) >>
    /\ Len(citations) = 2
    /\ Len(emitted) = 1
    /\ Len(emitted[1].data.sources) = 2

====
